---- MODULE Spec2Model ----
(***************************************************************************)
(* STM32L0 Wi-Fi driver: the workflow state machine (main.c), the          *)
(* command/response transaction engine (wifi.c send_command), the          *)
(* interrupt-fed receive buffer (nvic.c USART1_IRQHandler) and the wake    *)
(* scheduler (rtc.c RTC_set_alarm).                                        *)
(*                                                                         *)
(* Four specifications share the variables; each one drives one component  *)
(* and leaves the others at rest:                                          *)
(*   SpecFSM   / SpecFSMFair   server_update and its transition table      *)
(*   SpecTx    / SpecTxFair    one send_command call against the modem     *)
(*   SpecBuf                   the receive ring buffer under the interrupt *)
(*   SpecAlarm                 RTC_set_alarm                               *)
(***************************************************************************)
EXTENDS Integers, Sequences, FiniteSets, TLC

VARIABLES
    \* ---- server_update (main.c) ----
    fsm_pc,          \* "entry" | "call" | "check" | "returned"
    current_state,   \* stateType
    result,          \* int result of the last state function
    retries,         \* uint32_t retries
    calls,           \* history: handler invocations of this run
    failCalls,       \* history: handler invocations that returned -1
    invoked,         \* history: invocations per state
    wifi_res,        \* history: what its operation returned to the last handler
    succeeded,       \* history: invocations per state that returned 0
    \* ---- send_command (wifi.c), receive buffer (nvic.c), tick (timebase.c) ----
    tx_pc,           \* position inside send_command
    tx,              \* the arguments of the call
    uart_receive_buffer,
    uart_receive_index,
    current_tick,
    start_time,
    response,
    response_buffer,
    slots,           \* the variadic output destinations
    wire,            \* bytes the modem has sent that the UART has not yet received
    script,          \* the modem's answer to the command of this call
    hist,            \* history of the call and of the buffer
    \* ---- RTC_set_alarm (rtc.c) ----
    alarm_pc,
    rtc,             \* RTC->TR hour/minute/second fields (BCD) and ALRMAR/CR/WPR
    alarm,           \* locals of RTC_set_alarm
    \* ---- main loop (main.c), SysTick->CTRL, USART1->CR1 ----
    main_pc,         \* position inside the while (1) of main
    tickint,         \* SysTick->CTRL TICKINT
    usart1_ue,       \* USART1->CR1 UE
    primask,         \* PRIMASK: interrupts masked
    mhist,           \* history of the main loop
    \* ---- operations of wifi.c that chain calls of send_command ----
    op_pc,
    op,              \* locals of the operation
    sent             \* history: the commands handed to send_command, in order

fsmVars   == <<fsm_pc, current_state, result, retries, calls, failCalls, invoked,
               wifi_res, succeeded>>
txVars    == <<tx_pc, tx, uart_receive_buffer, uart_receive_index, current_tick,
               start_time, response, response_buffer, slots, wire, script, hist>>
alarmVars == <<alarm_pc, rtc, alarm>>
mainVars  == <<main_pc, tickint, usart1_ue, primask, mhist>>
opVars    == <<op_pc, op, sent>>
vars      == <<fsmVars, txVars, alarmVars, mainVars, opVars>>

(***************************************************************************)
(* Workflow state machine: main.c                                          *)
(***************************************************************************)

\* enum states, main.c:29-39
WIFI_INIT        == 0
READ_TIME        == 1
OPEN_CONNECTION  == 2
SEND_DATA        == 3
RECEIVE_DATA     == 4
CLOSE_CONNECTION == 5
POWER_DOWN       == 6
STOP             == 7

NUM_OF_STATES == 7
MAX_RETRIES   == 5

\* The loop of server_update compares against MAXIMUM_RETRIES (main.c:415), a
\* macro no file under src/ defines; the specification gives the budget as
\* MAX_RETRIES.
MAXIMUM_RETRIES == MAX_RETRIES

\* WiFi_res_t, wifi.h:33-38
WIFI_OK      == 0
WIFI_FAIL    == 1
WIFI_TIMEOUT == 2

WiFiResults == {WIFI_OK, WIFI_FAIL, WIFI_TIMEOUT}

\* Bound on the handler invocations of one run the model follows.
MaxCalls == 40

TableStates == 0 .. (NUM_OF_STATES - 1)

\* state_table with the success edge of SEND_DATA skipping RECEIVE_DATA.
state_table_SkipReceive ==
    [s \in TableStates |->
        CASE s = WIFI_INIT        -> [on_success |-> READ_TIME,        on_failure |-> POWER_DOWN]
          [] s = READ_TIME        -> [on_success |-> OPEN_CONNECTION,  on_failure |-> WIFI_INIT]
          [] s = OPEN_CONNECTION  -> [on_success |-> SEND_DATA,        on_failure |-> WIFI_INIT]
          [] s = SEND_DATA        -> [on_success |-> CLOSE_CONNECTION, on_failure |-> CLOSE_CONNECTION]
          [] s = RECEIVE_DATA     -> [on_success |-> CLOSE_CONNECTION, on_failure |-> SEND_DATA]
          [] s = CLOSE_CONNECTION -> [on_success |-> POWER_DOWN,       on_failure |-> OPEN_CONNECTION]
          [] s = POWER_DOWN       -> [on_success |-> STOP,             on_failure |-> WIFI_INIT]]

\* state_table, main.c:88-98: next_state_on_success / next_state_on_failure
state_table ==
    [s \in TableStates |->
        CASE s = WIFI_INIT        -> [on_success |-> READ_TIME,        on_failure |-> POWER_DOWN]
          [] s = READ_TIME        -> [on_success |-> OPEN_CONNECTION,  on_failure |-> WIFI_INIT]
          [] s = OPEN_CONNECTION  -> [on_success |-> SEND_DATA,        on_failure |-> WIFI_INIT]
          [] s = SEND_DATA        -> [on_success |-> RECEIVE_DATA,     on_failure |-> CLOSE_CONNECTION]
          [] s = RECEIVE_DATA     -> [on_success |-> CLOSE_CONNECTION, on_failure |-> SEND_DATA]
          [] s = CLOSE_CONNECTION -> [on_success |-> POWER_DOWN,       on_failure |-> OPEN_CONNECTION]
          [] s = POWER_DOWN       -> [on_success |-> STOP,             on_failure |-> WIFI_INIT]]

\* What an operation hands to its handler: a WiFi_res_t, or the -1 that
\* WiFi_init returns at wifi.c:221.
OperationResults == WiFiResults \cup {-1}

\* The handlers with a time-out of the operation taken for a success.
FSM_state_function_TimeoutPasses(res) ==
    IF res \in {WIFI_OK, WIFI_TIMEOUT} THEN 0 ELSE -1

\* FSM_wifi_connection .. FSM_power_down, main.c:449-611: each reduces the
\* WiFi_res_t of its operation to 0 (WIFI_OK) or -1 (anything else).
FSM_state_function(res) == IF res = WIFI_OK THEN 0 ELSE -1

FsmInit ==
    /\ fsm_pc = "entry"
    /\ current_state = WIFI_INIT
    /\ result = -1
    /\ retries = 0
    /\ calls = 0
    /\ failCalls = 0
    /\ invoked = [s \in TableStates |-> 0]
    /\ wifi_res = WIFI_OK
    /\ succeeded = [s \in TableStates |-> 0]

\* server_update, main.c:397-399: the locals
ServerUpdateEntry ==
    /\ fsm_pc = "entry"
    /\ current_state' = WIFI_INIT
    /\ result' = -1
    /\ retries' = 0
    /\ fsm_pc' = "call"
    /\ UNCHANGED <<calls, failCalls, invoked, wifi_res, succeeded>>
    /\ UNCHANGED <<txVars, alarmVars, mainVars, opVars>>

\* server_update, main.c:412: result = state_table[current_state].state_function()
CallStateFunction ==
    /\ fsm_pc = "call"
    /\ calls < MaxCalls
    /\ \E res \in OperationResults :
          /\ wifi_res' = res
          /\ result' = FSM_state_function(res)
          /\ failCalls' = IF FSM_state_function(res) = -1
                          THEN failCalls + 1 ELSE failCalls
          /\ succeeded' = IF FSM_state_function(res) = 0
                          THEN [succeeded EXCEPT ![current_state] = @ + 1]
                          ELSE succeeded
    /\ calls' = calls + 1
    /\ invoked' = [invoked EXCEPT ![current_state] = @ + 1]
    /\ fsm_pc' = "check"
    /\ UNCHANGED <<current_state, retries>>
    /\ UNCHANGED <<txVars, alarmVars, mainVars, opVars>>

\* The failure branch without the increment of the retry counter.
RetriesOnFailure_NoIncrement(r) == r

\* server_update, main.c:427: retries++
RetriesOnFailure(r) == r + 1

\* server_update, main.c:415-435: the budget check, the transition and the
\* loop condition
CheckAndAdvance ==
    /\ fsm_pc = "check"
    /\ IF retries = MAXIMUM_RETRIES
       THEN \* break
            /\ fsm_pc' = "returned"
            /\ UNCHANGED <<current_state, retries>>
       ELSE /\ IF result = -1
               THEN /\ current_state' = state_table[current_state].on_failure
                    /\ retries' = RetriesOnFailure(retries)
               ELSE IF result = 0
               THEN /\ current_state' = state_table[current_state].on_success
                    /\ UNCHANGED retries
               ELSE UNCHANGED <<current_state, retries>>
            /\ fsm_pc' = IF current_state' # STOP THEN "call" ELSE "returned"
    /\ UNCHANGED <<result, calls, failCalls, invoked, wifi_res, succeeded>>
    /\ UNCHANGED <<txVars, alarmVars, mainVars, opVars>>

(***************************************************************************)
(* Text: a C string is a sequence of one-character strings; NUL ends it.   *)
(***************************************************************************)

NUL == ""
CR  == "\r"
LF  == "\n"

\* strstr: the index (from 1) of the first occurrence of needle in hay, 0 for
\* none (NULL). An empty needle matches at the start.
Strstr(hay, needle) ==
    LET n == Len(needle)
        At(i) == \A k \in 1 .. n : hay[i + k - 1] = needle[k]
        Hits == {i \in 1 .. (Len(hay) - n + 1) : At(i)}
    IN  IF n = 0 THEN 1
        ELSE IF Hits = {} THEN 0
        ELSE CHOOSE i \in Hits : \A j \in Hits : i <= j

\* The suffix of s from index i on.
From(s, i) == IF i > Len(s) THEN <<>> ELSE SubSeq(s, i, Len(s))

\* isspace
IsSpace(c) == c \in {" ", "\t", "\n", "\r", "\f"}

Digits == {"0", "1", "2", "3", "4", "5", "6", "7", "8", "9"}

DigitVal(c) ==
    CASE c = "0" -> 0 [] c = "1" -> 1 [] c = "2" -> 2 [] c = "3" -> 3 [] c = "4" -> 4
      [] c = "5" -> 5 [] c = "6" -> 6 [] c = "7" -> 7 [] c = "8" -> 8 [] c = "9" -> 9

\* The first index >= j of inp whose character is not in (negated: is in)
\* set; Len(inp) + 1 when the run reaches the end of inp.
SpanSet(inp, j, set, negated) ==
    LET InRun(m) == m <= Len(inp) /\ ((inp[m] \in set) # negated)
        Ends == {m \in j .. (Len(inp) + 1) : ~InRun(m)}
    IN  CHOOSE m \in Ends : \A n \in Ends : m <= n

\* The first index >= j of inp that holds no white space.
SkipSpace(inp, j) == SpanSet(inp, j, {" ", "\t", "\n", "\r", "\f"}, FALSE)

\* The value of the decimal digits inp[a .. b].
RECURSIVE Decimal(_, _, _)
Decimal(inp, a, b) ==
    IF b < a THEN 0 ELSE Decimal(inp, a, b - 1) * 10 + DigitVal(inp[b])

\* %d without the optional sign.
ScanInt_Unsigned(inp, j) ==
    LET a == SkipSpace(inp, j)
        e == SpanSet(inp, a, Digits, FALSE)
    IN  IF e = a THEN [ok |-> FALSE, num |-> 0, next |-> a]
        ELSE [ok |-> TRUE, num |-> Decimal(inp, a, e - 1), next |-> e]

\* The %d conversion of vsscanf (wifi.c:93): white space is skipped, then an
\* optional sign and a non-empty run of decimal digits are converted.
ScanInt(inp, j) ==
    LET a == SkipSpace(inp, j)
        signed == a <= Len(inp) /\ inp[a] \in {"-", "+"}
        d == IF signed THEN a + 1 ELSE a
        e == SpanSet(inp, d, Digits, FALSE)
        v == Decimal(inp, d, e - 1)
    IN  IF e = d THEN [ok |-> FALSE, num |-> 0, next |-> a]
        ELSE [ok |-> TRUE,
              num |-> IF signed /\ inp[a] = "-" THEN 0 - v ELSE v,
              next |-> e]

\* The %s conversion: white space is skipped, then a non-empty run of
\* non-white-space characters is stored.
ScanWord(inp, j) ==
    LET a == SkipSpace(inp, j)
        e == SpanSet(inp, a, {" ", "\t", "\n", "\r", "\f"}, TRUE)
    IN  IF e = a THEN [ok |-> FALSE, text |-> <<>>, next |-> a]
        ELSE [ok |-> TRUE, text |-> SubSeq(inp, a, e - 1), next |-> e]

\* The scanset of a %[ directive whose '[' is at fmt[i]: the set, whether it
\* is negated, and the index after the closing ']'.
ScanSetOf(fmt, i) ==
    LET negated == i + 1 <= Len(fmt) /\ fmt[i + 1] = "^"
        first == IF negated THEN i + 2 ELSE i + 1
        \* a ']' right after '[' or '[^' belongs to the set
        Closers == {k \in (first + 1) .. Len(fmt) : fmt[k] = "]"}
        close == IF Closers = {} THEN Len(fmt) + 1
                 ELSE CHOOSE k \in Closers : \A m \in Closers : k <= m
    IN  [set |-> {fmt[k] : k \in first .. (close - 1)},
         negated |-> negated,
         next |-> close + 1]

\* The %[...] conversion: a non-empty run of characters of the scanset, no
\* white space skipped.
ScanSet(inp, j, set, negated) ==
    LET e == SpanSet(inp, j, set, negated)
    IN  IF e = j THEN [ok |-> FALSE, text |-> <<>>, next |-> j]
        ELSE [ok |-> TRUE, text |-> SubSeq(inp, j, e - 1), next |-> e]

\* An output destination of send_command's variadic arguments.
EmptySlot == [written |-> FALSE, num |-> 0, text |-> <<>>]
IntSlot(n) == [written |-> TRUE, num |-> n, text |-> <<>>]
TextSlot(t) == [written |-> TRUE, num |-> 0, text |-> t]

Store(out, k, v) == IF k <= Len(out) THEN [out EXCEPT ![k] = v] ELSE out

\* One directive of vsscanf's format. st = [i, j, k, out, stop]: i the
\* position in fmt, j the position in inp, k the next destination, out the
\* destinations, stop whether the scan has ended (the format is used up, or a
\* directive failed). A conversion stores into destination k as soon as it
\* succeeds; a failure leaves the destinations stored so far as they are.
VsscanfStep(inp, fmt, st) ==
    LET i == st.i
        j == st.j
        Stop == [st EXCEPT !.stop = TRUE]
        Conv(r, next_i, slot) ==
            IF r.ok
            THEN [st EXCEPT !.i = next_i, !.j = r.next, !.k = @ + 1,
                            !.out = Store(st.out, st.k, slot)]
            ELSE Stop
    IN  IF i > Len(fmt) THEN Stop
        ELSE IF IsSpace(fmt[i])
        THEN [st EXCEPT !.i = i + 1, !.j = SkipSpace(inp, j)]
        ELSE IF fmt[i] # "%"
        THEN IF j <= Len(inp) /\ inp[j] = fmt[i]
             THEN [st EXCEPT !.i = i + 1, !.j = j + 1]
             ELSE Stop
        ELSE IF i + 1 > Len(fmt) THEN Stop
        ELSE IF fmt[i + 1] = "d"
        THEN LET r == ScanInt(inp, j) IN Conv(r, i + 2, IntSlot(r.num))
        ELSE IF fmt[i + 1] = "s"
        THEN LET r == ScanWord(inp, j) IN Conv(r, i + 2, TextSlot(r.text))
        ELSE IF fmt[i + 1] = "["
        THEN LET ss == ScanSetOf(fmt, i + 1)
                 r == ScanSet(inp, j, ss.set, ss.negated)
             IN  Conv(r, ss.next, TextSlot(r.text))
        ELSE Stop

\* The directives of fmt applied in turn until the scan ends. (The state is
\* carried through a one-element set, so that each step is evaluated once.)
RECURSIVE VsscanfRun(_, _, _)
VsscanfRun(inp, fmt, st) ==
    IF st.stop THEN st.out
    ELSE CHOOSE o \in {VsscanfRun(inp, fmt, nxt) : nxt \in {VsscanfStep(inp, fmt, st)}} : TRUE

\* vsscanf(inp, fmt, args), wifi.c:93, with the destinations out: the
\* destinations after the scan.
Vsscanf(inp, fmt, out) ==
    CHOOSE o \in {VsscanfRun(i, f, [i |-> 1, j |-> 1, k |-> 1, out |-> out, stop |-> FALSE]) :
                     i \in {inp}, f \in {fmt}} : TRUE

\* The number of destinations written.
SlotsWritten(out) == Cardinality({k \in 1 .. Len(out) : out[k].written})

(***************************************************************************)
(* The texts of the transactions followed: WiFi_get_RSSI (wifi.c:693-710)  *)
(* and WiFi_check (wifi.c:611), and the modem's answers.                   *)
(***************************************************************************)

\* "AT+CWJAP?", wifi.c:701
Cmd_CWJAP ==
    <<"A", "T", "+", "C", "W", "J", "A", "P", "?">>

\* "+CWJAP:", wifi.c:701
Exp_CWJAP ==
    <<"+", "C", "W", "J", "A", "P", ":">>

\* The parse pattern of WiFi_get_RSSI, wifi.c:701:
\* "\"%[^\"]\",\"%[^\"]\",%d,%d,%d,%d,%d,%d,%d"
Parse_CWJAP ==
    <<"\"", "%", "[", "^", "\"", "]", "\"", ",", "\"", "%", "[", "^", "\"", 
      "]", "\"", ",", "%", "d", ",", "%", "d", ",", "%", "d", ",", "%", "d", 
      ",", "%", "d", ",", "%", "d", ",", "%", "d">>

\* "OK", the terminal token of both transactions
End_OK ==
    <<"O", "K">>

\* "AT", wifi.c:611
Cmd_AT ==
    <<"A", "T">>

\* The modem's answer to AT+CWJAP? when joined: the nine fields, then OK.
Rsp_CWJAP_Full ==
    <<"+", "C", "W", "J", "A", "P", ":", "\"", "s", "s", "i", "d", "\"", ",", 
      "\"", "b", "s", "s", "i", "d", "\"", ",", "6", ",", "-", "4", "2", ",", 
      "0", ",", "0", ",", "0", ",", "0", ",", "0", CR, LF, "O", "K", CR, LF>>

\* An answer that carries only the first four fields.
Rsp_CWJAP_Short ==
    <<"+", "C", "W", "J", "A", "P", ":", "\"", "s", "s", "i", "d", "\"", ",", 
      "\"", "b", "s", "s", "i", "d", "\"", ",", "6", ",", "-", "4", "2", CR, 
      LF, "O", "K", CR, LF>>

\* The answer when no access point is joined: no +CWJAP: line.
Rsp_NoAP ==
    <<"N", "o", " ", "A", "P", CR, LF, "O", "K", CR, LF>>

\* An error indication: the terminal token never comes.
Rsp_Error ==
    <<"E", "R", "R", "O", "R", CR, LF>>

\* What an earlier exchange left in the receive buffer.
Residue ==
    <<CR, LF, "O", "K", CR, LF>>

(***************************************************************************)
(* Receive buffer and tick counter: nvic.c, timebase.c                     *)
(***************************************************************************)

\* Capacity of uart_receive_buffer (SIZE_OF_INCOMING_DATA), scaled down to
\* the smallest size with headroom for the longest answer followed here.
SIZE_OF_INCOMING_DATA == 48

\* Largest timeout, in ticks, a followed transaction is given.
MaxDelay == 2

\* Bytes pushed in the run of the buffer on its own.
MaxPush == 100

\* current_tick is a uint32_t (timebase.c:16) and wraps at 2^32, which is more
\* than the model checker's integers hold: the counter is followed with the
\* same modular arithmetic at a smaller modulus.
TickModulus == 65536

BufIndex == 0 .. (SIZE_OF_INCOMING_DATA - 1)

ZeroBuffer == [i \in BufIndex |-> NUL]

\* The buffer holding text from position 0 on, zero after it.
BufferOf(text) == [i \in BufIndex |-> IF i < Len(text) THEN text[i + 1] ELSE NUL]

\* The C string that starts at the buffer's first byte, read up to the
\* first NUL and no further than the buffer's end.
CStr(buf) ==
    LET Nuls == {i \in BufIndex : buf[i] = NUL}
        n == IF Nuls = {} THEN SIZE_OF_INCOMING_DATA
             ELSE CHOOSE i \in Nuls : \A j \in Nuls : i <= j
    IN  [k \in 1 .. n |-> buf[k - 1]]

HasNul(buf) == \E i \in BufIndex : buf[i] = NUL

\* uart_receive_index = (uart_receive_index + 1) without the modulo.
NextIndex_NoWrap(idx) == idx + 1

\* nvic.c:30
NextIndex(idx) == (idx + 1) % SIZE_OF_INCOMING_DATA

\* USART1_IRQHandler, nvic.c:21-32, with RXNE set by the oldest byte on the
\* line: the byte is stored at the cursor and the cursor advances. (Followed
\* until the call of send_command has returned.)
USART1_IRQHandler ==
    /\ usart1_ue
    /\ ~primask
    /\ wire # <<>>
    /\ tx_pc # "returned"
    /\ uart_receive_buffer' =
          [i \in DOMAIN uart_receive_buffer \cup {uart_receive_index} |->
              IF i = uart_receive_index THEN Head(wire) ELSE uart_receive_buffer[i]]
    /\ uart_receive_index' = NextIndex(uart_receive_index)
    /\ wire' = Tail(wire)
    /\ hist' = [hist EXCEPT !.pushed = Append(@, Head(wire))]
    /\ UNCHANGED <<tx_pc, tx, current_tick, start_time, response,
                   response_buffer, slots, script>>
    /\ UNCHANGED <<fsmVars, alarmVars, mainVars, opVars>>

\* The elapsed time as a signed difference, without the wraparound.
Elapsed_Signed == current_tick - start_time

\* The elapsed time send_command computes, wifi.c:66: uint32_t subtraction.
Elapsed == (current_tick - start_time) % TickModulus

\* SysTick_Handler, nvic.c:80-84, and tick_increment, timebase.c:55-58.
\* Followed while a call is in progress and until the largest timeout has
\* passed.
SysTick_Handler ==
    /\ tickint
    /\ ~primask
    /\ \/ tx_pc \in {"clear", "reset_index", "transmit", "poll_time", "poll_scan"}
       \/ op.name = "get_tick" /\ op_pc # "returned"
    /\ Elapsed <= MaxDelay
    /\ current_tick' = (current_tick + 1) % TickModulus
    /\ hist' = [hist EXCEPT !.ticked = @ + 1]
    /\ UNCHANGED <<tx_pc, tx, uart_receive_buffer, uart_receive_index, start_time,
                   response, response_buffer, slots, wire, script>>
    /\ UNCHANGED <<fsmVars, alarmVars, mainVars, opVars>>

(***************************************************************************)
(* Transaction engine: send_command, wifi.c:38-115                         *)
(***************************************************************************)

\* The calls followed. exp_null / parse_null stand for a NULL exp / exp_parse;
\* slots is the number of variadic destinations passed. The timeout is drawn
\* from 0 .. MaxDelay ticks.
Transactions ==
    { [command |-> Cmd_CWJAP, exp_null |-> FALSE, exp |-> Exp_CWJAP,
       parse_null |-> FALSE, exp_parse |-> Parse_CWJAP, exp_end |-> End_OK,
       num_of_exp |-> 9, delay |-> d] : d \in 0 .. MaxDelay }
    \cup
    { [command |-> Cmd_AT, exp_null |-> FALSE, exp |-> End_OK,
       parse_null |-> TRUE, exp_parse |-> <<>>, exp_end |-> End_OK,
       num_of_exp |-> 0, delay |-> d] : d \in 0 .. MaxDelay }

\* What the modem may answer: each answer is shorter than the buffer.
Scripts == {Rsp_CWJAP_Full, Rsp_CWJAP_Short, Rsp_NoAP, Rsp_Error, <<>>}

\* Tick counter values at the call, one of them just before the counter wraps.
InitTicks == {0, TickModulus - 1}

NoHist == [pushed |-> <<>>, checked |-> FALSE, checkPassed |-> FALSE,
           scanned |-> FALSE, scanFound |-> FALSE, scanWhole |-> FALSE,
           sentAt |-> -1, ticked |-> 0]

TxInit ==
    /\ tx_pc = "entry"
    /\ tx \in Transactions
    /\ script \in Scripts
    /\ current_tick \in InitTicks
    /\ start_time = 0
    /\ \/ /\ uart_receive_buffer = ZeroBuffer
          /\ uart_receive_index = 0
       \/ /\ uart_receive_buffer = BufferOf(Residue)
          /\ uart_receive_index = Len(Residue)
    /\ response = WIFI_OK - 100
    /\ response_buffer = <<>>
    /\ slots = [k \in 1 .. tx.num_of_exp |-> EmptySlot]
    /\ wire = <<>>
    /\ hist = NoHist

\* The end of an earlier answer, still on the line when the next call is
\* made: the earlier call timed out before these bytes arrived.
LateBytes == <<"O", "K", CR, LF>>

\* A call made while the end of an earlier answer is still on its way; the
\* buffer holds what arrived of it.
TxInitLate ==
    /\ tx_pc = "entry"
    /\ tx \in {t \in Transactions : t.delay = MaxDelay}
    /\ script \in {Rsp_Error, <<>>}
    /\ current_tick = 0
    /\ start_time = 0
    /\ uart_receive_buffer = BufferOf(Residue)
    /\ uart_receive_index = Len(Residue)
    /\ response = WIFI_OK - 100
    /\ response_buffer = <<>>
    /\ slots = [k \in 1 .. tx.num_of_exp |-> EmptySlot]
    /\ wire = LateBytes
    /\ hist = NoHist

\* An answer with no terminal token that is longer than the receive buffer:
\* error lines repeated.
LongAnswer ==
    [i \in 1 .. (SIZE_OF_INCOMING_DATA + 2) |->
        Rsp_Error[((i - 1) % Len(Rsp_Error)) + 1]]

\* A call that the modem answers with more bytes than the buffer holds.
TxInitLong ==
    /\ tx_pc = "entry"
    /\ tx \in {t \in Transactions : t.delay = MaxDelay}
    /\ script = LongAnswer
    /\ current_tick = 0
    /\ start_time = 0
    /\ uart_receive_buffer = ZeroBuffer
    /\ uart_receive_index = 0
    /\ response = WIFI_OK - 100
    /\ response_buffer = <<>>
    /\ slots = [k \in 1 .. tx.num_of_exp |-> EmptySlot]
    /\ wire = <<>>
    /\ hist = NoHist

\* No call of send_command in progress, the buffer as main() finds it.
TxIdle ==
    /\ tx_pc = "idle"
    /\ tx = [command |-> <<>>, exp_null |-> TRUE, exp |-> <<>>, parse_null |-> TRUE,
             exp_parse |-> <<>>, exp_end |-> <<>>, num_of_exp |-> 0, delay |-> 0]
    /\ script = <<>>
    /\ current_tick = 0
    /\ start_time = 0
    /\ uart_receive_buffer = ZeroBuffer
    /\ uart_receive_index = 0
    /\ response = WIFI_OK - 100
    /\ response_buffer = <<>>
    /\ slots = <<>>
    /\ wire = <<>>
    /\ hist = NoHist

\* wifi.c:43-44: response = WIFI_OK - 100; start_time = get_tick()
SendCommandEntry ==
    /\ tx_pc = "entry"
    /\ response' = WIFI_OK - 100
    /\ start_time' = current_tick
    /\ tx_pc' = "clear"
    /\ UNCHANGED <<tx, uart_receive_buffer, uart_receive_index, current_tick,
                   response_buffer, slots, wire, script, hist>>
    /\ UNCHANGED <<fsmVars, alarmVars, mainVars, opVars>>

\* wifi.c:48: memset(uart_receive_buffer, 0, sizeof(uart_receive_buffer))
ClearedBuffer(buf) == [i \in DOMAIN buf |-> NUL]

\* wifi.c:47-49: the three memsets
ClearBuffers ==
    /\ tx_pc = "clear"
    /\ response_buffer' = <<>>
    /\ uart_receive_buffer' = ClearedBuffer(uart_receive_buffer)
    /\ tx_pc' = "reset_index"
    /\ UNCHANGED <<tx, uart_receive_index, current_tick, start_time, response,
                   slots, wire, script, hist>>
    /\ UNCHANGED <<fsmVars, alarmVars, mainVars, opVars>>

\* The reset with the cursor left where the previous exchange put it.
ResetIndex_KeepsCursor ==
    /\ tx_pc = "reset_index"
    /\ uart_receive_index' = uart_receive_index
    /\ tx_pc' = "transmit"
    /\ hist' = [hist EXCEPT !.pushed = <<>>]
    /\ UNCHANGED <<tx, uart_receive_buffer, current_tick, start_time, response,
                   response_buffer, slots, wire, script>>
    /\ UNCHANGED <<fsmVars, alarmVars, mainVars, opVars>>

\* wifi.c:50: uart_receive_index = 0
ResetIndex ==
    /\ tx_pc = "reset_index"
    /\ uart_receive_index' = 0
    /\ tx_pc' = "transmit"
    /\ hist' = [hist EXCEPT !.pushed = <<>>]
    /\ UNCHANGED <<tx, uart_receive_buffer, current_tick, start_time, response,
                   response_buffer, slots, wire, script>>
    /\ UNCHANGED <<fsmVars, alarmVars, mainVars, opVars>>

\* wifi.c:53-54: the command and CR LF go out on the line; the modem's answer
\* to it follows the bytes already on their way.
TransmitCommand ==
    /\ tx_pc = "transmit"
    /\ wire' = wire \o script
    /\ tx_pc' = "poll_time"
    /\ hist' = [hist EXCEPT !.sentAt = current_tick]
    /\ UNCHANGED <<tx, uart_receive_buffer, uart_receive_index, current_tick,
                   start_time, response, response_buffer, slots, script>>
    /\ UNCHANGED <<fsmVars, alarmVars, mainVars, opVars>>

\* The timeout test with > in place of >=.
TimedOut_Strict(elapsed, delay) == elapsed > delay

\* wifi.c:66: (get_tick() - start_time) >= delay
TimedOut(elapsed, delay) == elapsed >= delay

\* wifi.c:63-73: the loop condition and the timeout check of one iteration
PollTimeout ==
    /\ tx_pc = "poll_time"
    /\ IF TimedOut(Elapsed, tx.delay)
       THEN /\ response' = WIFI_TIMEOUT
            /\ tx_pc' = "returned"
       ELSE /\ UNCHANGED response
            /\ tx_pc' = "poll_scan"
    /\ hist' = [hist EXCEPT !.checked = TRUE, !.checkPassed = (Elapsed < tx.delay)]
    /\ UNCHANGED <<tx, uart_receive_buffer, uart_receive_index, current_tick,
                   start_time, response_buffer, slots, wire, script>>
    /\ UNCHANGED <<fsmVars, alarmVars, mainVars, opVars>>

\* wifi.c:76: what strstr(uart_receive_buffer, exp_end) can report. With no
\* NUL in the buffer the scan runs past its end, where it may or may not
\* meet the token.
ScanOutcomes(buf, needle) ==
    IF Strstr(CStr(buf), needle) # 0 THEN {TRUE}
    ELSE IF HasNul(buf) THEN {FALSE}
    ELSE BOOLEAN

\* wifi.c:78: strncpy(response_buffer, uart_receive_buffer, size - 1) into the
\* zeroed response_buffer
CopiedResponse(buf) ==
    LET str == CStr(buf)
    IN  IF Len(str) > SIZE_OF_INCOMING_DATA - 1
        THEN SubSeq(str, 1, SIZE_OF_INCOMING_DATA - 1) ELSE str

\* The extraction made to signal a missing ack token by zeroing every
\* destination.
ParsedSlots_ZeroesOnMiss(t, captured, out) ==
    IF ~t.exp_null /\ ~t.parse_null
    THEN LET exp_start == Strstr(captured, t.exp)
         IN  IF exp_start # 0
             THEN Vsscanf(From(captured, exp_start + Len(t.exp)), t.exp_parse, out)
             ELSE [k \in 1 .. Len(out) |-> IntSlot(0)]
    ELSE out

\* wifi.c:82-97: the optional extraction of fields from the captured text
ParsedSlots(t, captured, out) ==
    IF ~t.exp_null /\ ~t.parse_null
    THEN LET exp_start == Strstr(captured, t.exp)
         IN  IF exp_start # 0
             THEN Vsscanf(From(captured, exp_start + Len(t.exp)), t.exp_parse, out)
             ELSE out
    ELSE out

\* The result of an iteration that found the terminal token, made to depend
\* on the ack token: still pending when the ack token is absent.
ResponseOnMatch_NeedsAck(t, captured) ==
    IF ~t.exp_null /\ Strstr(captured, t.exp) = 0 THEN WIFI_OK - 100 ELSE WIFI_OK

\* wifi.c:79: response = WIFI_OK
ResponseOnMatch(t, captured) == WIFI_OK

\* wifi.c:76-100: the scan of one iteration
PollScan ==
    /\ tx_pc = "poll_scan"
    /\ \E found \in ScanOutcomes(uart_receive_buffer, tx.exp_end) :
          /\ hist' = [hist EXCEPT !.scanned = TRUE, !.scanFound = found,
                                  !.scanWhole = (wire = <<>>)]
          /\ IF found
             THEN LET captured == CopiedResponse(uart_receive_buffer)
                  IN  /\ response_buffer' = captured
                      /\ response' = ResponseOnMatch(tx, captured)
                      /\ slots' = ParsedSlots(tx, captured, slots)
                      /\ tx_pc' = "returned"    \* break, wifi.c:99
             ELSE /\ tx_pc' = "poll_time"
                  /\ UNCHANGED <<response, response_buffer, slots>>
    /\ UNCHANGED <<tx, uart_receive_buffer, uart_receive_index, current_tick,
                   start_time, wire, script>>
    /\ UNCHANGED <<fsmVars, alarmVars, mainVars, opVars>>

(***************************************************************************)
(* Wake scheduler: RTC_set_alarm, rtc.c:292-393                            *)
(***************************************************************************)

U8(x) == x % 256

\* _RTC_convert_bin2bcd, rtc.c:184-187 (the two nibbles do not overlap, so
\* the bitwise or is a sum)
RTC_convert_bin2bcd(value) == U8((value \div 10) * 16 + (value % 10))

\* The register value taken as binary, without the conversion.
RTC_convert_bcd2bin_Raw(value) == U8(value)

\* _RTC_convert_bcd2bin, rtc.c:196-199
RTC_convert_bcd2bin(value) == U8(((value % 256) \div 16) * 10 + (value % 16))

\* Clock readings and delay components the alarm computation is followed on.
HourSamples   == {0, 1, 12, 23}
MinSecSamples == {0, 1, 30, 59}

\* Seconds the clock may advance while RTC_set_alarm runs.
MaxClockSteps == 1

SLEEP_TIME == 1800

Delays == {h * 3600 + m * 60 + sec :
              h \in HourSamples, m \in MinSecSamples, sec \in MinSecSamples}

\* The overflow test with > in place of >=.
Overflows_Strict(value, limit) == value > limit

\* rtc.c:334, 341, 348: if (alarm_x >= limit)
Overflows(value, limit) == value >= limit

\* The alarm computation with the carry of the seconds into the minutes lost.
AlarmTime_DropsCarry(current_hours, current_minutes, current_seconds, total_seconds) ==
    LET added_hours   == total_seconds \div 3600
        added_minutes == (total_seconds % 3600) \div 60
        added_seconds == total_seconds % 60
        s0 == current_seconds + added_seconds
        m0 == current_minutes + added_minutes
        h0 == current_hours + added_hours
        s1 == IF U8(s0) >= 60 THEN U8(s0) - 60 ELSE U8(s0)
        m1 == U8(m0)
        carry_m == U8(m1) >= 60
        m2 == IF carry_m THEN U8(m1) - 60 ELSE U8(m1)
        h1 == IF carry_m THEN U8(h0) + 1 ELSE U8(h0)
        h2 == IF U8(h1) >= 24 THEN U8(h1) - 24 ELSE U8(h1)
    IN  [hours |-> U8(h2), minutes |-> U8(m2), seconds |-> U8(s1),
         wide |-> \E v \in {s0, m0, h0, s1, m1, m2, h1, h2} : v < 0 \/ v > 255]

\* rtc.c:323-351: the alarm time from the binary current time and the delay.
\* The fields are the uint8_t locals; wide is TRUE when an assignment to one
\* of them lost bits.
AlarmTime(current_hours, current_minutes, current_seconds, total_seconds) ==
    LET added_hours   == total_seconds \div 3600
        added_minutes == (total_seconds % 3600) \div 60
        added_seconds == total_seconds % 60
        s0 == current_seconds + added_seconds
        m0 == current_minutes + added_minutes
        h0 == current_hours + added_hours
        carry_s == Overflows(U8(s0), 60)
        s1 == IF carry_s THEN U8(s0) - 60 ELSE U8(s0)
        m1 == IF carry_s THEN U8(m0) + 1 ELSE U8(m0)
        carry_m == Overflows(U8(m1), 60)
        m2 == IF carry_m THEN U8(m1) - 60 ELSE U8(m1)
        h1 == IF carry_m THEN U8(h0) + 1 ELSE U8(h0)
        h2 == IF Overflows(U8(h1), 24) THEN U8(h1) - 24 ELSE U8(h1)
    IN  [hours |-> U8(h2), minutes |-> U8(m2), seconds |-> U8(s1),
         wide |-> \E v \in {s0, m0, h0, s1, m1, m2, h1, h2} : v < 0 \/ v > 255]

\* The clock one second later: the RTC's own BCD calendar, the date left out.
ClockNext(r) ==
    LET sec == RTC_convert_bcd2bin(r.second)
        m   == RTC_convert_bcd2bin(r.minute)
        h   == RTC_convert_bcd2bin(r.hour)
        s2  == (sec + 1) % 60
        m2  == IF sec = 59 THEN (m + 1) % 60 ELSE m
        h2  == IF sec = 59 /\ m = 59 THEN (h + 1) % 24 ELSE h
    IN  [r EXCEPT !.second = RTC_convert_bin2bcd(s2),
                  !.minute = RTC_convert_bin2bcd(m2),
                  !.hour   = RTC_convert_bin2bcd(h2)]

\* The time read and the delay of the call before this one, when this call
\* was made at the alarm time the earlier one set.
NoPrior == [set |-> FALSE, hours |-> 0, minutes |-> 0, seconds |-> 0, delay |-> 0]

\* The clock as <<hour, minute, second>> in binary.
ClockTriple(r) ==
    <<RTC_convert_bcd2bin(r.hour), RTC_convert_bcd2bin(r.minute),
      RTC_convert_bcd2bin(r.second)>>

NoAlarmLocals ==
    [total_seconds |-> 0, current_hours |-> 0, current_minutes |-> 0,
     current_seconds |-> 0, alarm_hours |-> 0, alarm_minutes |-> 0,
     alarm_seconds |-> 0, ret |-> 0, wide |-> FALSE, steps |-> 0,
     waits |-> 0, prior |-> NoPrior, seen |-> {}]

\* Delays of a second call.
SecondDelays == {0, 1, 2, 59, 60, SLEEP_TIME, 3599, 3600, 43200, 86399}

\* The RTC registers the program touches: TR (hour, minute, second, BCD),
\* DR (weekday, month, day, year, BCD; 1, 1, 1, 0 after a reset), ALRMAR
\* (al_hour, al_minute, al_second, BCD), CR.ALRAE, ISR.INIT, and whether the
\* write protection is on.
RtcAt(h, m, sec) ==
    [hour |-> RTC_convert_bin2bcd(h), minute |-> RTC_convert_bin2bcd(m),
     second |-> RTC_convert_bin2bcd(sec),
     weekday |-> 1, month |-> 1, day |-> 1, year |-> 0,
     al_hour |-> 0, al_minute |-> 0, al_second |-> 0,
     alrae |-> FALSE, init |-> FALSE, locked |-> TRUE]

AlarmInit ==
    /\ alarm_pc = "entry"
    /\ \E h \in HourSamples, m \in MinSecSamples, sec \in MinSecSamples :
          rtc = RtcAt(h, m, sec)
    /\ \E d \in Delays \cup {SLEEP_TIME, 2} :
          alarm = [NoAlarmLocals EXCEPT !.total_seconds = d]

AlarmIdle ==
    /\ alarm_pc = "idle"
    /\ rtc = RtcAt(0, 0, 0)
    /\ alarm = NoAlarmLocals

\* The RTC counts a second.
RtcSecond ==
    /\ alarm_pc \in {"read_hour", "read_minute", "read_second", "arm"}
    /\ alarm.steps < MaxClockSteps
    /\ rtc' = ClockNext(rtc)
    /\ alarm' = [alarm EXCEPT !.steps = @ + 1,
                              !.seen = @ \cup {ClockTriple(ClockNext(rtc))}]
    /\ UNCHANGED alarm_pc
    /\ UNCHANGED <<fsmVars, txVars, mainVars, opVars>>

\* The timeout branch without the two writes that lock the RTC again.
AlarmTimedOut_LeftUnlocked(r) == [r EXCEPT !.locked = FALSE, !.alrae = FALSE]

\* rtc.c:300-311: the registers when the wait ran its counter down: unlocked
\* (300-301), Alarm A disabled (304), locked again (310-311).
AlarmTimedOut(r) == [r EXCEPT !.locked = TRUE, !.alrae = FALSE]

\* rtc.c:299-313: unlock, disable Alarm A, wait for ALRAWF; the wait either
\* sees the flag or runs its counter down, and then the protection is put
\* back and -1 returned.
AlarmWaitWritable ==
    /\ alarm_pc = "entry"
    /\ \E alrawf \in BOOLEAN :
          IF alrawf
          THEN /\ rtc' = [rtc EXCEPT !.locked = FALSE, !.alrae = FALSE]
               /\ alarm_pc' = "read_hour"
               /\ alarm' = [alarm EXCEPT !.waits = @ + 1,
                                         !.seen = {ClockTriple(rtc)}]
          ELSE /\ rtc' = AlarmTimedOut(rtc)
               /\ alarm_pc' = "returned"
               /\ alarm' = [alarm EXCEPT !.ret = -1, !.waits = @ + 1]
    /\ UNCHANGED <<fsmVars, txVars, mainVars, opVars>>

\* rtc.c:316
AlarmReadHour ==
    /\ alarm_pc = "read_hour"
    /\ alarm' = [alarm EXCEPT !.current_hours = RTC_convert_bcd2bin(rtc.hour)]
    /\ alarm_pc' = "read_minute"
    /\ UNCHANGED rtc
    /\ UNCHANGED <<fsmVars, txVars, mainVars, opVars>>

\* rtc.c:317
AlarmReadMinute ==
    /\ alarm_pc = "read_minute"
    /\ alarm' = [alarm EXCEPT !.current_minutes = RTC_convert_bcd2bin(rtc.minute)]
    /\ alarm_pc' = "read_second"
    /\ UNCHANGED rtc
    /\ UNCHANGED <<fsmVars, txVars, mainVars, opVars>>

\* rtc.c:318
AlarmReadSecond ==
    /\ alarm_pc = "read_second"
    /\ alarm' = [alarm EXCEPT !.current_seconds = RTC_convert_bcd2bin(rtc.second)]
    /\ alarm_pc' = "arm"
    /\ UNCHANGED rtc
    /\ UNCHANGED <<fsmVars, txVars, mainVars, opVars>>

\* rtc.c:323-392: compute the alarm time, write ALRMAR in BCD, enable the
\* alarm, put the write protection back, return 0.
AlarmArm ==
    /\ alarm_pc = "arm"
    /\ LET t == AlarmTime(alarm.current_hours, alarm.current_minutes,
                          alarm.current_seconds, alarm.total_seconds)
       IN  /\ rtc' = [rtc EXCEPT !.al_hour = RTC_convert_bin2bcd(t.hours),
                                 !.al_minute = RTC_convert_bin2bcd(t.minutes),
                                 !.al_second = RTC_convert_bin2bcd(t.seconds),
                                 !.alrae = TRUE, !.locked = TRUE]
           /\ alarm' = [alarm EXCEPT !.alarm_hours = t.hours,
                                     !.alarm_minutes = t.minutes,
                                     !.alarm_seconds = t.seconds,
                                     !.ret = 0, !.wide = t.wide]
    /\ alarm_pc' = "returned"
    /\ UNCHANGED <<fsmVars, txVars, mainVars, opVars>>

(***************************************************************************)
(* Main loop: main.c:137-164                                               *)
(***************************************************************************)

NoMainHist == [cycles |-> 0, alarm_calls |-> 0, run_end |-> -1]

\* main() outside its loop: systick_init (timebase.c:25-46) has set TICKINT
\* and uart1_init has enabled USART1.
MainIdle ==
    /\ main_pc = "idle"
    /\ tickint = TRUE
    /\ usart1_ue = TRUE
    /\ primask = FALSE
    /\ mhist = NoMainHist

\* What WiFi_ntp_init holds in its locals after the time query (month as
\* text, the rest as int), whether the answer had a +CIPSNTPTIME: line, and
\* what rtc_init returned (1: not called).
NoNtp == [line |-> FALSE, month |-> "", num |-> 0, hour |-> 0, min |-> 0,
          sec |-> 0, year |-> 0, rtc_ret |-> 1]

\* get_tick: its local ticks, and as history the calls made and the counter
\* when the interrupts were masked and when they were unmasked.
NoGetTick == [ticks |-> 0, calls |-> 0, at_mask |-> -1, at_unmask |-> -1]

NoOp == [name |-> "none", result_code |-> -1, link_id |-> 0, reported |-> -1,
         imei_len |-> 0, rssi |-> 0, payload_len |-> 0, handler |-> 1,
         connection_status |-> 0, mux_mode |-> 0, ntp |-> NoNtp,
         gt |-> NoGetTick]

OpIdle ==
    /\ op_pc = "idle"
    /\ op = NoOp
    /\ sent = <<>>

\* Turns of the while (1) followed.
MaxCycles == 2

\* wifi.c:741: the call WiFi_status makes; its 2000 ms are the largest
\* timeout followed.
Cmd_CWSTATE   == <<"A", "T", "+", "C", "W", "S", "T", "A", "T", "E", "?">>
Exp_CWSTATE   == <<"+", "C", "W", "S", "T", "A", "T", "E", ":">>
Parse_CWSTATE == <<"%", "d", ",", "%", "s">>

StatusCall ==
    [command |-> Cmd_CWSTATE, exp_null |-> FALSE, exp |-> Exp_CWSTATE,
     parse_null |-> FALSE, exp_parse |-> Parse_CWSTATE, exp_end |-> End_OK,
     num_of_exp |-> 2, delay |-> MaxDelay]

NoCall ==
    [command |-> <<>>, exp_null |-> TRUE, exp |-> <<>>, parse_null |-> TRUE,
     exp_parse |-> <<>>, exp_end |-> <<>>, num_of_exp |-> 0, delay |-> 0]

\* The statement after the loop statement pc, in the order of main.c:140-159
\* with the alarm call left out.
MainSuccessor_NoAlarm(pc) ==
    CASE pc = "WiFi_status"      -> "server_update"
      [] pc = "server_update"    -> "Disable_SysTick"
      [] pc = "Disable_SysTick"  -> "prepare_LowPower"
      [] pc = "RTC_set_alarm"    -> "prepare_LowPower"
      [] pc = "prepare_LowPower" -> "enter_SleepMode"
      [] pc = "enter_SleepMode"  -> "Resume_SysTick"
      [] pc = "Resume_SysTick"   -> "WiFi_status"

\* The statement after the loop statement pc, main.c:137-160.
MainSuccessor(pc) ==
    CASE pc = "WiFi_status"      -> "server_update"
      [] pc = "server_update"    -> "Disable_SysTick"
      [] pc = "Disable_SysTick"  -> "RTC_set_alarm"
      [] pc = "RTC_set_alarm"    -> "prepare_LowPower"
      [] pc = "prepare_LowPower" -> "enter_SleepMode"
      [] pc = "enter_SleepMode"  -> "Resume_SysTick"
      [] pc = "Resume_SysTick"   -> "WiFi_status"

\* The loop of main() is entered with the peripherals initialised.
MainInit ==
    /\ main_pc = "WiFi_status"
    /\ tickint = TRUE
    /\ usart1_ue = TRUE
    /\ primask = FALSE
    /\ mhist = NoMainHist

\* main.c:140, wifi.c:734-741: WiFi_status calls send_command; the modem
\* stays silent during the query.
MainWiFiStatus ==
    /\ main_pc = "WiFi_status"
    /\ mhist.cycles < MaxCycles
    /\ tx_pc \in {"idle"}
    /\ tx_pc' = "entry"
    /\ tx' = StatusCall
    /\ script' = <<>>
    /\ slots' = [k \in 1 .. StatusCall.num_of_exp |-> EmptySlot]
    /\ hist' = NoHist
    /\ main_pc' = "in_WiFi_status"
    /\ UNCHANGED <<uart_receive_buffer, uart_receive_index, current_tick,
                   start_time, response, response_buffer, wire>>
    /\ UNCHANGED <<tickint, usart1_ue, primask, mhist>>
    /\ UNCHANGED <<fsmVars, alarmVars, opVars>>

\* wifi.c:742-747: the result is only logged; the locals of the call are gone.
MainWiFiStatusReturn ==
    /\ main_pc = "in_WiFi_status"
    /\ tx_pc = "returned"
    /\ tx_pc' = "idle"
    /\ tx' = NoCall
    /\ slots' = <<>>
    /\ hist' = NoHist
    /\ start_time' = 0
    /\ response' = WIFI_OK - 100
    /\ response_buffer' = <<>>
    /\ main_pc' = MainSuccessor("WiFi_status")
    /\ UNCHANGED <<uart_receive_buffer, uart_receive_index, current_tick,
                   wire, script>>
    /\ UNCHANGED <<tickint, usart1_ue, primask, mhist>>
    /\ UNCHANGED <<fsmVars, alarmVars, opVars>>

\* main.c:144: server_update is called.
MainServerUpdate ==
    /\ main_pc = "server_update"
    /\ fsm_pc = "idle"
    /\ fsm_pc' = "entry"
    /\ main_pc' = "in_server_update"
    /\ mhist' = [mhist EXCEPT !.alarm_calls = 0, !.run_end = -1]
    /\ UNCHANGED <<current_state, result, retries, calls, failCalls, invoked,
                   wifi_res, succeeded>>
    /\ UNCHANGED <<tickint, usart1_ue, primask>>
    /\ UNCHANGED <<txVars, alarmVars, opVars>>

\* server_update has returned (it returns nothing); its locals are gone and
\* the state its run ended in is kept as history.
MainServerUpdateReturn ==
    /\ main_pc = "in_server_update"
    /\ fsm_pc = "returned"
    /\ fsm_pc' = "idle"
    /\ current_state' = WIFI_INIT
    /\ result' = -1
    /\ retries' = 0
    /\ calls' = 0
    /\ failCalls' = 0
    /\ wifi_res' = WIFI_OK
    /\ succeeded' = [s \in TableStates |-> 0]
    /\ invoked' = [s \in TableStates |-> 0]
    /\ mhist' = [mhist EXCEPT !.run_end = current_state]
    /\ main_pc' = MainSuccessor("server_update")
    /\ UNCHANGED <<tickint, usart1_ue, primask>>
    /\ UNCHANGED <<txVars, alarmVars, opVars>>

\* main.c:176-180: SysTick->CTRL &= ~TICKINT
Disable_SysTick ==
    /\ main_pc = "Disable_SysTick"
    /\ tickint' = FALSE
    /\ main_pc' = MainSuccessor("Disable_SysTick")
    /\ UNCHANGED <<usart1_ue, primask, mhist>>
    /\ UNCHANGED <<fsmVars, txVars, alarmVars, opVars>>

\* main.c:153: RTC_set_alarm(SLEEP_TIME) is called.
MainSetAlarm ==
    /\ main_pc = "RTC_set_alarm"
    /\ alarm_pc \in {"idle", "returned"}
    /\ alarm_pc' = "entry"
    /\ alarm' = [NoAlarmLocals EXCEPT !.total_seconds = SLEEP_TIME]
    /\ mhist' = [mhist EXCEPT !.alarm_calls = @ + 1]
    /\ main_pc' = "in_RTC_set_alarm"
    /\ UNCHANGED <<rtc, tickint, usart1_ue, primask>>
    /\ UNCHANGED <<fsmVars, txVars, opVars>>

\* main.c:153: the value RTC_set_alarm returned is not used.
MainSetAlarmReturn ==
    /\ main_pc = "in_RTC_set_alarm"
    /\ alarm_pc = "returned"
    /\ main_pc' = MainSuccessor("RTC_set_alarm")
    /\ UNCHANGED <<tickint, usart1_ue, primask, mhist>>
    /\ UNCHANGED <<fsmVars, txVars, alarmVars, opVars>>

\* pwr.c:54-67: the ADC and both USARTs are switched off.
prepare_LowPower ==
    /\ main_pc = "prepare_LowPower"
    /\ usart1_ue' = FALSE
    /\ main_pc' = MainSuccessor("prepare_LowPower")
    /\ UNCHANGED <<tickint, primask, mhist>>
    /\ UNCHANGED <<fsmVars, txVars, alarmVars, opVars>>

\* pwr.c:22-44: Stop mode is configured and __WFI() executed.
enter_SleepMode ==
    /\ main_pc = "enter_SleepMode"
    /\ main_pc' = "suspended"
    /\ UNCHANGED <<tickint, usart1_ue, primask, mhist>>
    /\ UNCHANGED <<fsmVars, txVars, alarmVars, opVars>>

\* nvic.c:37-50 and pwr.c:69-82: Alarm A, when enabled, raises the RTC
\* interrupt; its handler calls mcu_WakeUp, which initialises the USARTs
\* again, and __WFI() returns.
RTC_IRQHandler ==
    /\ main_pc = "suspended"
    /\ rtc.alrae
    /\ usart1_ue' = TRUE
    /\ main_pc' = MainSuccessor("enter_SleepMode")
    /\ UNCHANGED <<tickint, primask, mhist>>
    /\ UNCHANGED <<fsmVars, txVars, alarmVars, opVars>>

\* CTRL left as it is.
ResumedCtrl_Unchanged(ctrl) == ctrl

\* main.c:190: SysTick->CTRL |= TICKINT
ResumedCtrl(ctrl) == TRUE

\* main.c:187-191
Resume_SysTick ==
    /\ main_pc = "Resume_SysTick"
    /\ tickint' = ResumedCtrl(tickint)
    /\ mhist' = [mhist EXCEPT !.cycles = @ + 1]
    /\ main_pc' = MainSuccessor("Resume_SysTick")
    /\ UNCHANGED <<usart1_ue, primask>>
    /\ UNCHANGED <<fsmVars, txVars, alarmVars, opVars>>

(***************************************************************************)
(* Operations that chain calls of send_command: wifi.c:344-385, 460-494,   *)
(* and their state handlers, main.c:499-537                                *)
(***************************************************************************)

\* Lengths of node.IMEI_num (a char[MAX_COMMAND_SIZE], wifi.h:54) and values
\* of node.RSSI the payload is built from.
ImeiLens   == {0, 17, 19, 49}
RssiValues == {0 - 100, 0 - 42, 0, 5}

\* Link ids a +CIPSTATUS: line may report; -1 stands for an answer without
\* such a line, which leaves link_id as it was.
LinkReports == {-1, 0, 1, 4}

\* Values the uninitialised local link_id (wifi.c:348) may hold.
LinkJunk == {0, 4, 7}

\* Characters %d prints for n.
DecLen(n) ==
    LET a == IF n < 0 THEN 0 - n ELSE n
        d == IF a < 10 THEN 1 ELSE IF a < 100 THEN 2 ELSE 3
    IN  IF n < 0 THEN d + 1 ELSE d

\* wifi.c:469: what snprintf returns for {"1":%s, "2":%d}
PayloadLen(imei_len, rssi) == 5 + imei_len + 6 + DecLen(rssi) + 1

\* wifi.c:464, 469: the characters snprintf stored in payload[100]
PayloadStored(imei_len, rssi) ==
    IF PayloadLen(imei_len, rssi) > 99 THEN 99 ELSE PayloadLen(imei_len, rssi)

\* A call of send_command as the operations see it: the command, its
\* numeric argument, the terminal token and the WiFi_res_t returned.
Sent(cmd, arg, exp_end, res) ==
    [cmd |-> cmd, arg |-> arg, exp_end |-> exp_end, res |-> res]

\* enum connectionStatus, wifi.h:41-48
UNITITIALIZED == 0
CONNECTING    == 1
CONNECTED     == 2
RECONNECTING  == 2
DISCONNECTED  == 3

ConnectionStatuses ==
    {UNITITIALIZED, CONNECTING, CONNECTED, RECONNECTING, DISCONNECTED}

\* Values of the global mux_mode (wifi.c:21) at the call, and what a
\* +CIPMUX: line may report; -1 stands for an answer without such a line.
MuxModes   == {0, 1}
MuxReports == {-1, 0, 1}

OpInit ==
    /\ op_pc = "entry"
    /\ sent = <<>>
    /\ \/ op = [NoOp EXCEPT !.name = "WiFi_ntp_init"]
       \/ \E n \in ImeiLens, r \in RssiValues :
             op = [NoOp EXCEPT !.name = "WiFi_send_udp", !.imei_len = n, !.rssi = r]
       \/ \E junk \in LinkJunk :
             op = [NoOp EXCEPT !.name = "WiFi_open_connection", !.link_id = junk]
       \/ \E st \in ConnectionStatuses, mux \in MuxModes :
             op = [NoOp EXCEPT !.name = "WiFi_init", !.connection_status = st,
                               !.mux_mode = mux]

\* The early return never taken.
CallFailed_Never(result_code) == FALSE

\* wifi.c:357, 475, 485: if (result_code != 0)
CallFailed(result_code) == result_code # 0

\* wifi.c:469-474: the payload is built and its length announced with
\* AT+CIPSEND=<payload_len + 2>, terminal token ">".
SendUdpAnnounce ==
    /\ op_pc = "entry"
    /\ op.name = "WiFi_send_udp"
    /\ \E res \in WiFiResults :
          /\ op' = [op EXCEPT !.payload_len = PayloadLen(op.imei_len, op.rssi),
                              !.result_code = res]
          /\ sent' = Append(sent, Sent("AT+CIPSEND",
                                       PayloadLen(op.imei_len, op.rssi) + 2,
                                       ">", res))
    /\ op_pc' = "announced"
    /\ UNCHANGED <<fsmVars, txVars, alarmVars, mainVars>>

\* wifi.c:475-481
SendUdpCheckAnnounce ==
    /\ op_pc = "announced"
    /\ op_pc' = IF CallFailed(op.result_code) THEN "return" ELSE "payload"
    /\ UNCHANGED <<op, sent>>
    /\ UNCHANGED <<fsmVars, txVars, alarmVars, mainVars>>

\* wifi.c:484-493: the payload goes out, terminal token "SEND OK"; the
\* result is returned whatever it is. arg is the number of bytes put on the
\* line: the stored payload and CR LF.
SendUdpPayload ==
    /\ op_pc = "payload"
    /\ \E res \in WiFiResults :
          /\ op' = [op EXCEPT !.result_code = res]
          /\ sent' = Append(sent, Sent("payload",
                                       PayloadStored(op.imei_len, op.rssi) + 2,
                                       "SEND OK", res))
    /\ op_pc' = "return"
    /\ UNCHANGED <<fsmVars, txVars, alarmVars, mainVars>>

\* wifi.c:352-354: AT+CIPSTATUS; vsscanf writes link_id when the answer has
\* a +CIPSTATUS: line, otherwise link_id keeps its indeterminate value.
OpenStatusQuery ==
    /\ op_pc = "entry"
    /\ op.name = "WiFi_open_connection"
    /\ \E res \in WiFiResults, line \in LinkReports :
          LET seen == IF res = WIFI_OK THEN line ELSE -1
          IN  /\ op' = [op EXCEPT !.result_code = res,
                                  !.reported = seen,
                                  !.link_id = IF seen # -1 THEN seen ELSE @]
              /\ sent' = Append(sent, Sent("AT+CIPSTATUS", 0, "OK", res))
    /\ op_pc' = "queried"
    /\ UNCHANGED <<fsmVars, txVars, alarmVars, mainVars>>

\* wifi.c:357-363
OpenCheckStatus ==
    /\ op_pc = "queried"
    /\ op_pc' = IF CallFailed(op.result_code) THEN "return" ELSE "branch"
    /\ UNCHANGED <<op, sent>>
    /\ UNCHANGED <<fsmVars, txVars, alarmVars, mainVars>>

\* The open command sent whatever the link id.
NeedsOpen_Always(link_id) == TRUE

\* wifi.c:365: if (link_id != 4)
NeedsOpen(link_id) == link_id # 4

\* wifi.c:365-384: AT+CIPSTART unless link_id is 4
OpenStart ==
    /\ op_pc = "branch"
    /\ IF NeedsOpen(op.link_id)
       THEN \E res \in WiFiResults :
               /\ op' = [op EXCEPT !.result_code = res]
               /\ sent' = Append(sent, Sent("AT+CIPSTART", 0, "OK", res))
       ELSE UNCHANGED <<op, sent>>
    /\ op_pc' = "return"
    /\ UNCHANGED <<fsmVars, txVars, alarmVars, mainVars>>

\* wifi.c:153-160 and 607-619: WiFi_check sends AT; its result is only
\* logged.
WifiInitCheck ==
    /\ op_pc = "entry"
    /\ op.name = "WiFi_init"
    /\ \E res \in WiFiResults :
          /\ op' = [op EXCEPT !.result_code = IF res # WIFI_OK THEN WIFI_FAIL
                                              ELSE WIFI_OK]
          /\ sent' = Append(sent, Sent("AT", 0, "OK", res))
    /\ op_pc' = "status"
    /\ UNCHANGED <<fsmVars, txVars, alarmVars, mainVars>>

\* The join sequence run whatever the connection status.
NeedsJoin_Always(status) == TRUE

\* wifi.c:163: if (node.connection_status != CONNECTED)
NeedsJoin(status) == status # CONNECTED

\* wifi.c:163
WifiInitBranch ==
    /\ op_pc = "status"
    /\ op_pc' = IF NeedsJoin(op.connection_status) THEN "AT+CWINIT" ELSE "AT+CIPMUX?"
    /\ UNCHANGED <<op, sent>>
    /\ UNCHANGED <<fsmVars, txVars, alarmVars, mainVars>>

\* The join commands in the order of wifi.c:165-195.
JoinSuccessor(cmd) ==
    CASE cmd = "AT+CWINIT"       -> "AT+CWMODE"
      [] cmd = "AT+CWMODE"       -> "AT+CWJAP"
      [] cmd = "AT+CWJAP"        -> "AT+CWRECONNCFG"
      [] cmd = "AT+CWRECONNCFG"  -> "AT+CIPMUX?"

\* wifi.c:165-195: one join command; anything but WIFI_OK is returned.
WifiInitJoin ==
    /\ op_pc \in {"AT+CWINIT", "AT+CWMODE", "AT+CWJAP", "AT+CWRECONNCFG"}
    /\ \E res \in WiFiResults :
          /\ op' = [op EXCEPT !.result_code = res]
          /\ sent' = Append(sent, Sent(op_pc, 0, "OK", res))
          /\ op_pc' = IF res # WIFI_OK THEN "return" ELSE JoinSuccessor(op_pc)
    /\ UNCHANGED <<fsmVars, txVars, alarmVars, mainVars>>

\* wifi.c:200-205: AT+CIPMUX? with mux_mode as destination
WifiInitMuxQuery ==
    /\ op_pc = "AT+CIPMUX?"
    /\ \E res \in WiFiResults, line \in MuxReports :
          LET mux == IF res = WIFI_OK /\ line # -1 THEN line ELSE op.mux_mode
          IN  /\ op' = [op EXCEPT !.result_code = res, !.mux_mode = mux]
              /\ sent' = Append(sent, Sent("AT+CIPMUX?", 0, "OK", res))
              /\ op_pc' = IF res # WIFI_OK THEN "return"
                          ELSE IF mux # 0 THEN "AT+CIPMUX=0"
                          ELSE "AT+CIPRECVTYPE=1"
    /\ UNCHANGED <<fsmVars, txVars, alarmVars, mainVars>>

\* wifi.c:207-215
WifiInitMuxSet ==
    /\ op_pc = "AT+CIPMUX=0"
    /\ \E res \in WiFiResults :
          /\ op' = [op EXCEPT !.result_code = res]
          /\ sent' = Append(sent, Sent("AT+CIPMUX=0", 0, "OK", res))
          /\ op_pc' = IF res # WIFI_OK THEN "return" ELSE "AT+CIPRECVTYPE=1"
    /\ UNCHANGED <<fsmVars, txVars, alarmVars, mainVars>>

\* wifi.c:217-222: a failure is returned as -1
WifiInitRecvType ==
    /\ op_pc = "AT+CIPRECVTYPE=1"
    /\ \E res \in WiFiResults :
          /\ op' = [op EXCEPT !.result_code = IF res # 0 THEN -1 ELSE res]
          /\ sent' = Append(sent, Sent("AT+CIPRECVTYPE=1", 0, "OK", res))
          /\ op_pc' = IF res # 0 THEN "return" ELSE "AT+CIPSTA?"
    /\ UNCHANGED <<fsmVars, txVars, alarmVars, mainVars>>

\* wifi.c:224-238
WifiInitIpQuery ==
    /\ op_pc = "AT+CIPSTA?"
    /\ \E res \in WiFiResults :
          /\ op' = [op EXCEPT !.result_code = res]
          /\ sent' = Append(sent, Sent("AT+CIPSTA?", 0, "OK", res))
    /\ op_pc' = "return"
    /\ UNCHANGED <<fsmVars, txVars, alarmVars, mainVars>>

\* wifi.c:797-800: the table of _extract_month
MonthNames ==
    <<"Jan", "Feb", "Mar", "Apr", "May", "Jun",
      "Jul", "Aug", "Sep", "Oct", "Nov", "Dec">>

\* The 1-based position of the name in the table.
extract_month_OneBased(month) ==
    IF \E i \in 1 .. 12 : MonthNames[i] = month
    THEN CHOOSE i \in 1 .. 12 : MonthNames[i] = month
    ELSE -1

\* _extract_month, wifi.c:794-815: the 0-based index of the name, -1 for none
extract_month(month) ==
    IF \E i \in 1 .. 12 : MonthNames[i] = month
    THEN (CHOOSE i \in 1 .. 12 : MonthNames[i] = month) - 1
    ELSE -1

\* What the time service may report, and what the uninitialised int locals
\* (wifi.c:278) may hold when the answer has no +CIPSNTPTIME: line.
NtpReports ==
    { [line |-> TRUE, month |-> MonthNames[i], num |-> d, hour |-> h,
       min |-> 59, sec |-> 30, year |-> 2024, rtc_ret |-> 1] :
          i \in 1 .. 12, d \in {1, 31}, h \in {0, 23} }
    \cup
    { [line |-> TRUE, month |-> "Xyz", num |-> 4, hour |-> 10,
       min |-> 0, sec |-> 0, year |-> 2024, rtc_ret |-> 1] }
    \cup
    { [line |-> FALSE, month |-> "", num |-> j, hour |-> j, min |-> j,
       sec |-> j, year |-> j, rtc_ret |-> 1] : j \in {0, 77} }

\* wifi.c:281-288: AT+CIPSNTPCFG; anything but WIFI_OK is returned.
NtpConfigure ==
    /\ op_pc = "entry"
    /\ op.name = "WiFi_ntp_init"
    /\ \E res \in WiFiResults :
          /\ op' = [op EXCEPT !.result_code = res]
          /\ sent' = Append(sent, Sent("AT+CIPSNTPCFG", 0, "OK", res))
          /\ op_pc' = IF CallFailed(res) THEN "return" ELSE "AT+CIPSNTPTIME?"
    /\ UNCHANGED <<fsmVars, txVars, alarmVars, mainVars>>

\* wifi.c:291-298: AT+CIPSNTPTIME? with the seven destinations; anything but
\* WIFI_OK is returned.
NtpQuery ==
    /\ op_pc = "AT+CIPSNTPTIME?"
    /\ \E res \in WiFiResults, report \in NtpReports :
          /\ res # WIFI_OK => ~report.line
          /\ op' = [op EXCEPT !.result_code = res, !.ntp = report]
          /\ sent' = Append(sent, Sent("AT+CIPSNTPTIME?", 0, "OK", res))
          /\ op_pc' = IF CallFailed(res) THEN "return" ELSE "rtc_init"
    /\ UNCHANGED <<fsmVars, txVars, alarmVars, mainVars>>

\* wifi.c:301-307: the rtcType handed to rtc_init
NtpTime(ntp) ==
    [hour   |-> RTC_convert_bin2bcd(U8(ntp.hour)),
     minute |-> RTC_convert_bin2bcd(U8(ntp.min)),
     second |-> RTC_convert_bin2bcd(U8(ntp.sec)),
     day    |-> RTC_convert_bin2bcd(U8(ntp.num)),
     month  |-> RTC_convert_bin2bcd(U8(extract_month(ntp.month) - 1)),
     week   |-> 2,
     year   |-> RTC_convert_bin2bcd(U8(ntp.year - 2000))]

\* RTC_validateTime, rtc.c:255-263, on uint8_t arguments
RTC_validateTime(hour, minute, second) ==
    ~(U8(hour) > 35 \/ U8(minute) > 89 \/ U8(second) > 89)

\* RTC_validateDate, rtc.c:275-283, on uint8_t arguments
RTC_validateDate(weekday, month, date, year) ==
    ~(U8(weekday) < 1 \/ U8(weekday) > 4 \/ U8(month) < 1 \/ U8(month) > 18
        \/ U8(date) < 1 \/ U8(date) > 49)

\* rtc_init, rtc.c:29-114, as [rtc |-> the registers, ret |-> its result]:
\* the RTC is reset (38-39); LSI not ready: -1 (46-51); unlock and request
\* initialisation mode (62-66); INITF not seen: -1 (70-75); the time is
\* validated and written (85-92), then the date (96-103); initialisation
\* mode is left and the protection put back (107-111).
rtc_init(time, lsirdy, initf) ==
    LET reset == RtcAt(0, 0, 0)
        open  == [reset EXCEPT !.locked = FALSE, !.init = TRUE]
        timed == [open EXCEPT !.hour = U8(time.hour), !.minute = U8(time.minute),
                              !.second = U8(time.second)]
        dated == [timed EXCEPT !.weekday = time.week, !.month = U8(time.month),
                               !.day = U8(time.day), !.year = U8(time.year)]
    IN  IF ~lsirdy THEN [rtc |-> reset, ret |-> -1]
        ELSE IF ~initf THEN [rtc |-> open, ret |-> -1]
        ELSE IF ~RTC_validateTime(time.hour, time.minute, time.second)
             THEN [rtc |-> open, ret |-> -1]
        ELSE IF ~RTC_validateDate(time.week, time.month, time.day, time.year)
             THEN [rtc |-> timed, ret |-> -1]
        ELSE [rtc |-> [dated EXCEPT !.init = FALSE, !.locked = TRUE], ret |-> 0]

\* wifi.c:300-313: the time is converted and rtc_init called; what rtc_init
\* returns is not used and the result of the query is returned.
NtpCommit ==
    /\ op_pc = "rtc_init"
    /\ \E lsirdy \in BOOLEAN, initf \in BOOLEAN :
          LET done == rtc_init(NtpTime(op.ntp), lsirdy, initf)
          IN  /\ rtc' = done.rtc
              /\ op' = [op EXCEPT !.ntp.rtc_ret = done.ret]
    /\ op_pc' = "return"
    /\ UNCHANGED <<sent, alarm_pc, alarm>>
    /\ UNCHANGED <<fsmVars, txVars, mainVars>>

\* main.c:449-537: FSM_wifi_connection, FSM_read_time, FSM_open_connection
\* and FSM_send_data turn the operation's result into 0 or -1.
OpHandlerReturn ==
    /\ op_pc = "return"
    /\ op' = [op EXCEPT !.handler = FSM_state_function(op.result_code)]
    /\ op_pc' = "returned"
    /\ UNCHANGED sent
    /\ UNCHANGED <<fsmVars, txVars, alarmVars, mainVars>>

\* The clock has reached the alarm time (TR equals the hour, minute and
\* second of ALRMAR) and RTC_set_alarm is called again, with a second delay.
AlarmReapply ==
    /\ alarm_pc = "returned"
    /\ alarm.ret = 0
    /\ ~alarm.prior.set
    /\ rtc' = [rtc EXCEPT !.hour = rtc.al_hour, !.minute = rtc.al_minute,
                          !.second = rtc.al_second]
    /\ \E d \in SecondDelays :
          alarm' = [NoAlarmLocals EXCEPT
                       !.total_seconds = d,
                       !.prior = [set |-> TRUE,
                                  hours |-> alarm.current_hours,
                                  minutes |-> alarm.current_minutes,
                                  seconds |-> alarm.current_seconds,
                                  delay |-> alarm.total_seconds]]
    /\ alarm_pc' = "entry"
    /\ UNCHANGED <<fsmVars, txVars, mainVars, opVars>>

(***************************************************************************)
(* Specifications                                                          *)
(***************************************************************************)

FsmIdle ==
    /\ fsm_pc = "idle"
    /\ current_state = WIFI_INIT
    /\ result = -1
    /\ retries = 0
    /\ calls = 0
    /\ failCalls = 0
    /\ invoked = [s \in TableStates |-> 0]
    /\ wifi_res = WIFI_OK
    /\ succeeded = [s \in TableStates |-> 0]

NextFSM ==
    \/ ServerUpdateEntry
    \/ CallStateFunction
    \/ CheckAndAdvance

InitFSM == FsmInit /\ TxIdle /\ AlarmIdle /\ MainIdle /\ OpIdle

SpecFSM == InitFSM /\ [][NextFSM]_vars

\* server_update is straight-line code around handlers that return: a step
\* that can be taken is taken.
SpecFSMFair == SpecFSM /\ WF_vars(NextFSM)

\* The steps of send_command itself.
SendCommandStep ==
    \/ SendCommandEntry
    \/ ClearBuffers
    \/ ResetIndex
    \/ TransmitCommand
    \/ PollTimeout
    \/ PollScan

NextTx ==
    \/ SendCommandStep
    \/ USART1_IRQHandler
    \/ SysTick_Handler

InitTx == FsmIdle /\ TxInit /\ AlarmIdle /\ MainIdle /\ OpIdle

SpecTx == InitTx /\ [][NextTx]_vars

InitTxLate == FsmIdle /\ TxInitLate /\ AlarmIdle /\ MainIdle /\ OpIdle

SpecTxLate == InitTxLate /\ [][NextTx]_vars

InitTxLong == FsmIdle /\ TxInitLong /\ AlarmIdle /\ MainIdle /\ OpIdle

SpecTxLong == InitTxLong /\ [][NextTx]_vars

\* The main line keeps running and the tick interrupt keeps firing.
SpecTxFair == SpecTx /\ WF_vars(SendCommandStep) /\ WF_vars(SysTick_Handler)

\* The byte streams pushed into the buffer on its own: MaxPush bytes that
\* repeat a short text, so that the buffer wraps at least once.
Stream(text) == [i \in 1 .. MaxPush |-> text[((i - 1) % Len(text)) + 1]]

InitBuf ==
    /\ FsmIdle
    /\ AlarmIdle
    /\ MainIdle
    /\ OpIdle
    /\ tx_pc = "idle"
    /\ tx = [command |-> <<>>, exp_null |-> TRUE, exp |-> <<>>, parse_null |-> TRUE,
             exp_parse |-> <<>>, exp_end |-> <<>>, num_of_exp |-> 0, delay |-> 0]
    /\ script = <<>>
    /\ current_tick = 0
    /\ start_time = 0
    /\ uart_receive_buffer = ZeroBuffer
    /\ uart_receive_index = 0
    /\ response = WIFI_OK - 100
    /\ response_buffer = <<>>
    /\ slots = <<>>
    /\ wire \in {Stream(Rsp_CWJAP_Full), Stream(Rsp_NoAP), Stream(Rsp_Error)}
    /\ hist = NoHist

NextBuf == USART1_IRQHandler

SpecBuf == InitBuf /\ [][NextBuf]_vars

NextAlarm ==
    \/ AlarmWaitWritable
    \/ AlarmReadHour
    \/ AlarmReadMinute
    \/ AlarmReadSecond
    \/ AlarmArm
    \/ RtcSecond

InitAlarm == FsmIdle /\ TxIdle /\ AlarmInit /\ MainIdle /\ OpIdle

SpecAlarm == InitAlarm /\ [][NextAlarm]_vars

\* The loop of main(): status query, workflow run, alarm, suspend, resume.
NextMain ==
    \/ MainWiFiStatus
    \/ SendCommandStep
    \/ SysTick_Handler
    \/ MainWiFiStatusReturn
    \/ MainServerUpdate
    \/ NextFSM
    \/ MainServerUpdateReturn
    \/ Disable_SysTick
    \/ MainSetAlarm
    \/ AlarmWaitWritable
    \/ AlarmReadHour
    \/ AlarmReadMinute
    \/ AlarmReadSecond
    \/ AlarmArm
    \/ MainSetAlarmReturn
    \/ prepare_LowPower
    \/ enter_SleepMode
    \/ RTC_IRQHandler
    \/ Resume_SysTick

InitMain == FsmIdle /\ TxIdle /\ AlarmIdle /\ MainInit /\ OpIdle

SpecMain == InitMain /\ [][NextMain]_vars

(***************************************************************************)
(* get_tick, timebase.c:66-81                                              *)
(***************************************************************************)

\* Calls of get_tick followed, one after the other as in the polling loop.
MaxGetTicks == 3

GetTickInit ==
    /\ op_pc = "entry"
    /\ op = [NoOp EXCEPT !.name = "get_tick"]
    /\ sent = <<>>

\* The tick counter at the first call; no call of send_command in progress.
TickInit ==
    /\ tx_pc = "idle"
    /\ tx = [command |-> <<>>, exp_null |-> TRUE, exp |-> <<>>, parse_null |-> TRUE,
             exp_parse |-> <<>>, exp_end |-> <<>>, num_of_exp |-> 0, delay |-> 0]
    /\ script = <<>>
    /\ current_tick \in InitTicks
    /\ start_time = current_tick
    /\ uart_receive_buffer = ZeroBuffer
    /\ uart_receive_index = 0
    /\ response = WIFI_OK - 100
    /\ response_buffer = <<>>
    /\ slots = <<>>
    /\ wire = <<>>
    /\ hist = NoHist

\* PRIMASK after a call that leaves the interrupts as they were.
PrimaskAfterDisable_NoMask(mask) == mask

\* timebase.c:71: __disable_irq() sets PRIMASK
PrimaskAfterDisable(mask) == TRUE

\* timebase.c:68-71: uint32_t ticks = 0; __disable_irq()
GetTickDisable ==
    /\ op_pc = "entry"
    /\ op.name = "get_tick"
    /\ primask' = PrimaskAfterDisable(primask)
    /\ op' = [op EXCEPT !.gt.ticks = 0, !.gt.at_mask = current_tick,
                        !.gt.at_unmask = -1]
    /\ op_pc' = "load"
    /\ UNCHANGED <<sent, main_pc, tickint, usart1_ue, mhist>>
    /\ UNCHANGED <<fsmVars, txVars, alarmVars>>

\* timebase.c:74: ticks = current_tick, one 32-bit load
GetTickLoad ==
    /\ op_pc = "load"
    /\ op' = [op EXCEPT !.gt.ticks = current_tick]
    /\ op_pc' = "enable"
    /\ UNCHANGED sent
    /\ UNCHANGED <<fsmVars, txVars, alarmVars, mainVars>>

\* timebase.c:77: __enable_irq() clears PRIMASK
GetTickEnable ==
    /\ op_pc = "enable"
    /\ primask' = FALSE
    /\ op' = [op EXCEPT !.gt.at_unmask = current_tick]
    /\ op_pc' = "tick_return"
    /\ UNCHANGED <<sent, main_pc, tickint, usart1_ue, mhist>>
    /\ UNCHANGED <<fsmVars, txVars, alarmVars>>

\* timebase.c:80: return ticks
GetTickReturn ==
    /\ op_pc = "tick_return"
    /\ op' = [op EXCEPT !.result_code = op.gt.ticks, !.gt.calls = @ + 1]
    /\ op_pc' = "returned"
    /\ UNCHANGED sent
    /\ UNCHANGED <<fsmVars, txVars, alarmVars, mainVars>>

\* wifi.c:63-66: the polling loop calls get_tick again
GetTickAgain ==
    /\ op_pc = "returned"
    /\ op.name = "get_tick"
    /\ op.gt.calls < MaxGetTicks
    /\ op_pc' = "entry"
    /\ UNCHANGED <<op, sent>>
    /\ UNCHANGED <<fsmVars, txVars, alarmVars, mainVars>>

NextTick ==
    \/ GetTickDisable
    \/ GetTickLoad
    \/ GetTickEnable
    \/ GetTickReturn
    \/ GetTickAgain
    \/ SysTick_Handler

InitTick == FsmIdle /\ TickInit /\ AlarmIdle /\ MainIdle /\ GetTickInit

SpecTick == InitTick /\ [][NextTick]_vars

NextOps ==
    \/ SendUdpAnnounce
    \/ SendUdpCheckAnnounce
    \/ SendUdpPayload
    \/ OpenStatusQuery
    \/ OpenCheckStatus
    \/ OpenStart
    \/ WifiInitCheck
    \/ WifiInitBranch
    \/ WifiInitJoin
    \/ WifiInitMuxQuery
    \/ WifiInitMuxSet
    \/ WifiInitRecvType
    \/ WifiInitIpQuery
    \/ NtpConfigure
    \/ NtpQuery
    \/ NtpCommit
    \/ OpHandlerReturn

InitOps == FsmIdle /\ TxIdle /\ AlarmIdle /\ MainIdle /\ OpInit

SpecOps == InitOps /\ [][NextOps]_vars

\* Two calls of RTC_set_alarm in a row, the second made at the time the first
\* set, the clock standing still during each call.
NextAlarmTwice ==
    \/ AlarmWaitWritable
    \/ AlarmReadHour
    \/ AlarmReadMinute
    \/ AlarmReadSecond
    \/ AlarmArm
    \/ AlarmReapply

SpecAlarmTwice == InitAlarm /\ [][NextAlarmTwice]_vars

(***************************************************************************)
(* Claims                                                                  *)
(***************************************************************************)

\* C1: in a run in which every handler invocation so far has succeeded, the
\* handlers invoked are exactly the first `calls` states of the table, once
\* each (so the k-th invocation is the k-th state, ConnectWifi first and
\* PowerDown seventh), the retry counter is 0, and the run ends in STOP after
\* the seventh.
C1_AllSucceed ==
    failCalls = 0 =>
        /\ retries = 0
        /\ \A s \in TableStates : invoked[s] = IF s < calls THEN 1 ELSE 0
        /\ fsm_pc = "returned" => (current_state = STOP /\ calls = NUM_OF_STATES)

C1_Witness ==
    /\ fsm_pc = "returned"
    /\ failCalls = 0
    /\ current_state = STOP
    /\ invoked[POWER_DOWN] = 1

\* C2 (as claimed): a run in which every handler invocation failed has
\* returned after exactly MAX_RETRIES failing invocations, not in STOP.
C2_AllFailFiveCalls ==
    (fsm_pc = "returned" /\ failCalls = calls) =>
        (failCalls = MAX_RETRIES /\ current_state # STOP)

C4_Terminates ==
    /\ <>(fsm_pc = "returned")
    /\ [](calls <= NUM_OF_STATES * MAX_RETRIES + 1)

C4_Witness ==
    /\ fsm_pc = "returned"
    /\ calls = NUM_OF_STATES * MAX_RETRIES + 1

\* The terminal token is in the receive buffer while the call waits for it.
TokenInBuffer ==
    /\ tx_pc \in {"poll_time", "poll_scan"}
    /\ Strstr(CStr(uart_receive_buffer), tx.exp_end) # 0

\* C5: if the terminal token never appears in the receive buffer, the call
\* returns WIFI_TIMEOUT (every behaviour reaches a state with the token in the
\* buffer or a return of WIFI_TIMEOUT); the timeout check of an iteration ends the call
\* exactly when tick - start_time >= delay at that check; and a call that
\* returned anything but WIFI_TIMEOUT captured a text that holds the
\* terminal token.
C5_TimeoutEndsTheWait ==
    /\ <>(TokenInBuffer \/ (tx_pc = "returned" /\ response = WIFI_TIMEOUT))
    /\ [][(tx_pc = "poll_time" /\ tx_pc' # "poll_time") =>
            ((Elapsed >= tx.delay) <=> (tx_pc' = "returned" /\ response' = WIFI_TIMEOUT))]_vars
    /\ []((tx_pc = "returned" /\ response # WIFI_TIMEOUT) =>
            (response = WIFI_OK /\ Strstr(response_buffer, tx.exp_end) # 0))

C5_Witness ==
    /\ tx_pc = "returned"
    /\ response = WIFI_TIMEOUT
    /\ script = Rsp_Error
    /\ wire = <<>>
    /\ tx.delay = MaxDelay
    /\ hist.scanned

\* C6: a call has returned WIFI_OK exactly when its last iteration passed the
\* timeout check (elapsed < delay) and its scan found the terminal token,
\* whether or not the captured text holds the ack token and whether or not
\* any destination was written.
C6_OkIffTokenFound ==
    tx_pc = "returned" =>
        (response = WIFI_OK <=>
            (hist.scanned /\ hist.scanFound /\ hist.checkPassed))

C6_Witness ==
    /\ tx_pc = "returned"
    /\ response = WIFI_OK
    /\ ~tx.parse_null
    /\ Strstr(response_buffer, tx.exp) = 0
    /\ SlotsWritten(slots) = 0

\* C7 (as claimed): a call with a parse pattern that returned WIFI_OK has
\* written either all num_of_exp destinations or none.
C7_AllOrNothing ==
    (tx_pc = "returned" /\ response = WIFI_OK /\ ~tx.parse_null) =>
        SlotsWritten(slots) \in {0, tx.num_of_exp}

\* C8: the AT+CWJAP? call answered with the nine-field +CWJAP: line: a scan
\* made in time with the whole answer in the buffer returns WIFI_OK, and
\* whenever the call returns WIFI_OK all nine destinations are written and
\* the fourth (node.RSSI) holds -42.
C8_RssiMinus42 ==
    (tx_pc = "returned" /\ tx.command = Cmd_CWJAP /\ script = Rsp_CWJAP_Full) =>
        /\ (hist.scanned /\ hist.scanWhole) => response = WIFI_OK
        /\ response = WIFI_OK =>
              (slots[4] = IntSlot(0 - 42) /\ SlotsWritten(slots) = 9)

C8_Witness ==
    /\ tx_pc = "returned"
    /\ tx.command = Cmd_CWJAP
    /\ script = Rsp_CWJAP_Full
    /\ response = WIFI_OK
    /\ slots[4].written
    /\ slots[4].num = 0 - 42

\* The buffer read in wraparound order from the cursor.
FromCursor ==
    [k \in 1 .. SIZE_OF_INCOMING_DATA |->
        uart_receive_buffer[(uart_receive_index + k - 1) % SIZE_OF_INCOMING_DATA]]

\* C9: no push writes outside the buffer, and after more pushes than the
\* capacity the buffer, read in wraparound order from the cursor, is the most
\* recent `capacity` bytes pushed, oldest first.
C9_RingKeepsNewest ==
    /\ DOMAIN uart_receive_buffer = BufIndex
    /\ uart_receive_index \in BufIndex
    /\ Len(hist.pushed) > SIZE_OF_INCOMING_DATA =>
          FromCursor = SubSeq(hist.pushed,
                              Len(hist.pushed) - SIZE_OF_INCOMING_DATA + 1,
                              Len(hist.pushed))

C9_Witness ==
    /\ Len(hist.pushed) = 2 * SIZE_OF_INCOMING_DATA + 1
    /\ uart_receive_index = 1

\* C10: for a valid current time and a delay below a day, the alarm time
\* RTC_set_alarm computes and writes has its hour in 0..23 and its minute and
\* second in 0..59, and no assignment to an 8-bit local lost bits.
C10_AlarmInRange ==
    (alarm_pc = "returned" /\ alarm.ret = 0) =>
        /\ alarm.alarm_hours \in 0 .. 23
        /\ alarm.alarm_minutes \in 0 .. 59
        /\ alarm.alarm_seconds \in 0 .. 59
        /\ RTC_convert_bcd2bin(rtc.al_hour) = alarm.alarm_hours
        /\ RTC_convert_bcd2bin(rtc.al_minute) = alarm.alarm_minutes
        /\ RTC_convert_bcd2bin(rtc.al_second) = alarm.alarm_seconds
        /\ ~alarm.wide

C10_Witness ==
    /\ alarm_pc = "returned"
    /\ alarm.ret = 0
    /\ alarm.total_seconds = 23 * 3600 + 59 * 60 + 59
    /\ alarm.current_hours = 23
    /\ alarm.current_minutes = 59
    /\ alarm.current_seconds = 59
    /\ alarm.alarm_hours = 23

\* A time of day as seconds since midnight, and back.
SecondsOfDay(h, m, sec) == h * 3600 + m * 60 + sec

TimeOfDay(n) ==
    [hours |-> n \div 3600, minutes |-> (n % 3600) \div 60, seconds |-> n % 60]

\* C11: the alarm time RTC_set_alarm computes and writes is the time it read
\* as current plus the delay, modulo a day, split into hour, minute and
\* second (so a delay of 0 gives the time read, and 23:59:59 plus 2 seconds
\* gives 00:00:01); the date is not part of what is written.
C11_AlarmIsSumModDay ==
    (alarm_pc = "returned" /\ alarm.ret = 0) =>
        LET T == SecondsOfDay(alarm.current_hours, alarm.current_minutes,
                              alarm.current_seconds)
            want == TimeOfDay((T + alarm.total_seconds) % 86400)
        IN  /\ alarm.alarm_hours = want.hours
            /\ alarm.alarm_minutes = want.minutes
            /\ alarm.alarm_seconds = want.seconds
            /\ rtc.al_hour = RTC_convert_bin2bcd(want.hours)
            /\ rtc.al_minute = RTC_convert_bin2bcd(want.minutes)
            /\ rtc.al_second = RTC_convert_bin2bcd(want.seconds)

C11_Witness ==
    /\ alarm_pc = "returned"
    /\ alarm.ret = 0
    /\ alarm.total_seconds = 2
    /\ alarm.current_hours = 23
    /\ alarm.current_minutes = 59
    /\ alarm.current_seconds = 59
    /\ alarm.alarm_hours = 0
    /\ alarm.alarm_minutes = 0
    /\ alarm.alarm_seconds = 1

\* C12: a call made at the alarm time an earlier call set, with delay d2,
\* sets the alarm time that one call made at the earlier call's time with
\* delay (d1 + d2) mod 86400 sets.
C12_AlarmAdditive ==
    (alarm_pc = "returned" /\ alarm.ret = 0 /\ alarm.prior.set) =>
        LET direct == AlarmTime(alarm.prior.hours, alarm.prior.minutes,
                                alarm.prior.seconds,
                                (alarm.prior.delay + alarm.total_seconds) % 86400)
        IN  /\ alarm.alarm_hours = direct.hours
            /\ alarm.alarm_minutes = direct.minutes
            /\ alarm.alarm_seconds = direct.seconds

C12_Witness ==
    /\ alarm_pc = "returned"
    /\ alarm.ret = 0
    /\ alarm.prior.set
    /\ alarm.prior.delay + alarm.total_seconds > 86400
    /\ alarm.prior.seconds = 59
    /\ alarm.prior.delay % 60 = 59
    /\ alarm.total_seconds = 3599

\* C13 (as claimed): when RTC_set_alarm has returned -1, the PowerDown
\* handler of the cycle's run reported a failure: the run did not end in
\* STOP over PowerDown's success edge.
C13_AlarmFailureFailsPowerDown ==
    (alarm_pc = "returned" /\ alarm.ret = -1 /\ main_pc # "in_RTC_set_alarm") =>
        mhist.run_end # STOP

\* server_update is running.
RunInProgress == fsm_pc \in {"entry", "call", "check"}

\* RTC_set_alarm is running.
AlarmInProgress == alarm_pc \notin {"idle", "returned"}

\* C15: in every turn of the main loop RTC_set_alarm is called once, after
\* server_update has returned and before the device suspends: the device is
\* never about to suspend or suspended without exactly one call since the
\* last run, RTC_set_alarm never runs during a run, and no call has been made
\* while the run of the turn is still in progress.
C15_AlarmOncePerCycle ==
    /\ main_pc \in {"prepare_LowPower", "enter_SleepMode", "suspended"} =>
          (mhist.alarm_calls = 1 /\ alarm_pc = "returned" /\ mhist.run_end # -1)
    /\ AlarmInProgress => (main_pc = "in_RTC_set_alarm" /\ ~RunInProgress)
    /\ RunInProgress => (mhist.alarm_calls = 0 /\ main_pc = "in_server_update")
    /\ mhist.alarm_calls <= 1

C15_Witness ==
    /\ main_pc = "suspended"
    /\ mhist.cycles = 1
    /\ mhist.alarm_calls = 1
    /\ mhist.run_end = STOP

\* send_command is between its entry and its return.
CallInProgress ==
    tx_pc \in {"entry", "clear", "reset_index", "transmit", "poll_time", "poll_scan"}

\* C16: the tick interrupt is disabled from Disable_SysTick until
\* Resume_SysTick has run, the suspension included, and it is enabled
\* whenever send_command is in progress or a workflow run, whose handlers
\* call send_command, is in progress.
C16_TickOffOnlyAroundSuspend ==
    /\ main_pc \in {"RTC_set_alarm", "in_RTC_set_alarm", "prepare_LowPower",
                     "enter_SleepMode", "suspended", "Resume_SysTick"} => ~tickint
    /\ CallInProgress => tickint
    /\ RunInProgress => tickint

C16_Witness ==
    /\ mhist.cycles = 1
    /\ tx_pc = "poll_time"
    /\ Elapsed = 1
    /\ tickint

\* C14: a call whose wait for the writable window ran out has returned -1
\* after one wait, straight from the wait, with the alarm time register as it
\* was at the call, Alarm A not enabled and the write protection on.
C14_TimeoutLeavesAlarmUnset ==
    /\ []((alarm_pc = "returned" /\ alarm.ret = -1) =>
            (~rtc.alrae /\ rtc.locked /\ alarm.waits = 1))
    /\ [][(alarm_pc = "entry" /\ alarm_pc' = "returned") =>
            /\ alarm'.ret = -1
            /\ rtc'.al_hour = rtc.al_hour
            /\ rtc'.al_minute = rtc.al_minute
            /\ rtc'.al_second = rtc.al_second]_vars
    /\ [][alarm'.ret = -1 => (alarm.ret = -1 \/ alarm_pc = "entry")]_vars

C14_Witness ==
    /\ alarm_pc = "returned"
    /\ alarm.ret = -1
    /\ alarm.prior.set
    /\ rtc.al_minute = RTC_convert_bin2bcd(30)
    /\ rtc.al_hour = RTC_convert_bin2bcd(12)

\* C17 (as claimed): when the reset of a call has just completed (the cursor
\* has been set to 0 and no byte has been received since), every byte of the
\* receive buffer is zero and the cursor is 0.
C17_ResetLeavesBufferClean ==
    (tx_pc = "transmit" /\ hist.pushed = <<>>) =>
        (uart_receive_buffer = ZeroBuffer /\ uart_receive_index = 0)

\* C18 (as claimed): a call returns WIFI_OK only if the modem's answer to
\* its own command holds the terminal token.
C18_OkOnlyFromOwnAnswer ==
    (tx_pc = "returned" /\ response = WIFI_OK) =>
        Strstr(script, tx.exp_end) # 0

\* C19: SendData returns 0 exactly when the announcement and then the
\* payload both returned WIFI_OK; the first call is AT+CIPSEND with the
\* payload length plus 2 and terminal token ">", the second the payload with
\* terminal token "SEND OK"; the payload goes out only after an
\* announcement that returned WIFI_OK.
C19_SendDataTwoRoundTrips ==
    op.name = "WiFi_send_udp" =>
        /\ \A i \in 1 .. Len(sent) :
              sent[i].cmd = "payload" =>
                 /\ i = 2
                 /\ sent[1].res = WIFI_OK
                 /\ sent[i].exp_end = "SEND OK"
                 /\ sent[1].arg = sent[i].arg
        /\ Len(sent) >= 1 =>
              /\ sent[1].cmd = "AT+CIPSEND"
              /\ sent[1].exp_end = ">"
              /\ sent[1].arg = PayloadStored(op.imei_len, op.rssi) + 2
        /\ op_pc = "returned" =>
              (op.handler = 0 <=>
                  (/\ Len(sent) = 2
                   /\ sent[1].res = WIFI_OK
                   /\ sent[2].cmd = "payload"
                   /\ sent[2].res = WIFI_OK))

C19_Witness ==
    /\ op.name = "WiFi_send_udp"
    /\ op_pc = "returned"
    /\ op.handler = 0
    /\ Len(sent) = 2
    /\ op.imei_len = 49

\* C20: the open command is sent at most once in an invocation and only as
\* the second call, after a status query that returned WIFI_OK; and when the
\* query returned WIFI_OK and reported link id 4, the handler returns 0 with
\* no open command sent.
C20_OpenAtMostOnce ==
    op.name = "WiFi_open_connection" =>
        /\ \A i \in 1 .. Len(sent) :
              sent[i].cmd = "AT+CIPSTART" =>
                 /\ i = 2
                 /\ sent[1].cmd = "AT+CIPSTATUS"
                 /\ sent[1].res = WIFI_OK
        /\ Len(sent) <= 2
        /\ (op_pc = "returned" /\ op.reported = 4) =>
              (Len(sent) = 1 /\ sent[1].res = WIFI_OK /\ op.handler = 0)

C20_Witness ==
    /\ op.name = "WiFi_open_connection"
    /\ op_pc = "returned"
    /\ op.reported = 4
    /\ op.handler = 0
    /\ Len(sent) = 1

\* The commands that join the access point.
JoinCommands == {"AT+CWINIT", "AT+CWMODE", "AT+CWJAP", "AT+CWRECONNCFG"}

\* C21 (as claimed): started with connection_status CONNECTED, WiFi_init
\* transmits only the connection-mode, reception-mode and IP queries.
C21_OnlyQueriesWhenConnected ==
    (op.name = "WiFi_init" /\ op.connection_status = CONNECTED) =>
        \A i \in 1 .. Len(sent) :
            sent[i].cmd \in {"AT+CIPMUX?", "AT+CIPMUX=0", "AT+CIPRECVTYPE=1",
                             "AT+CIPSTA?"}

\* C21 (amended): started with connection_status CONNECTED, WiFi_init
\* transmits none of the join commands: it transmits the AT probe of
\* WiFi_check first and after it only the connection-mode query (with
\* AT+CIPMUX=0 when the mode is not 0), the reception-mode command and the
\* IP query.
C21_NoJoinWhenConnected ==
    (op.name = "WiFi_init" /\ op.connection_status = CONNECTED) =>
        /\ \A i \in 1 .. Len(sent) : sent[i].cmd \notin JoinCommands
        /\ Len(sent) >= 1 => sent[1].cmd = "AT"
        /\ \A i \in 2 .. Len(sent) :
              sent[i].cmd \in {"AT+CIPMUX?", "AT+CIPMUX=0", "AT+CIPRECVTYPE=1",
                               "AT+CIPSTA?"}

C21_Witness ==
    /\ op.name = "WiFi_init"
    /\ op.connection_status = CONNECTED
    /\ op_pc = "returned"
    /\ op.handler = 0
    /\ Len(sent) = 5

\* C22 (as claimed): when SyncTime has succeeded on an answer that reports
\* a time, the clock holds the reported hour, minute, second, day and
\* year - 2000 in BCD, and as month the calendar number 1..12 of the reported
\* abbreviation in BCD.
C22_CommittedTimeIsReported ==
    (/\ op.name = "WiFi_ntp_init"
     /\ op_pc = "returned"
     /\ op.handler = 0
     /\ op.ntp.line
     /\ extract_month(op.ntp.month) # -1) =>
        /\ rtc.month = RTC_convert_bin2bcd(extract_month_OneBased(op.ntp.month))
        /\ rtc.hour = RTC_convert_bin2bcd(op.ntp.hour)
        /\ rtc.minute = RTC_convert_bin2bcd(op.ntp.min)
        /\ rtc.second = RTC_convert_bin2bcd(op.ntp.sec)
        /\ rtc.day = RTC_convert_bin2bcd(op.ntp.num)
        /\ rtc.year = RTC_convert_bin2bcd(op.ntp.year - 2000)

\* C23 (as claimed): the workflow enters STOP only by a step taken in
\* POWER_DOWN on a handler success; once the handler of POWER_DOWN has failed
\* the workflow moves to WIFI_INIT; and no entry of the table other than the
\* success edge of POWER_DOWN leads to STOP.
C23_StopOnlyAfterPowerDown ==
    /\ [][(current_state' = STOP /\ current_state # STOP) =>
              (current_state = POWER_DOWN /\ result = 0)]_vars
    /\ [][(fsm_pc = "check" /\ fsm_pc' # "check"
              /\ current_state = POWER_DOWN /\ result = -1) =>
              current_state' = WIFI_INIT]_vars
    /\ [](\A s \in TableStates :
              /\ state_table[s].on_failure # STOP
              /\ state_table[s].on_success = STOP => s = POWER_DOWN)

C26_NoWriteWithoutAck ==
    (/\ tx_pc = "returned"
     /\ \/ response = WIFI_TIMEOUT
        \/ response = WIFI_OK /\ Strstr(response_buffer, tx.exp) = 0) =>
        slots = [k \in 1 .. tx.num_of_exp |-> EmptySlot]

C26_Witness ==
    /\ tx_pc = "returned"
    /\ tx.num_of_exp > 0
    /\ response = WIFI_TIMEOUT
    /\ Strstr(CStr(uart_receive_buffer), tx.exp) # 0
    /\ slots = [k \in 1 .. tx.num_of_exp |-> EmptySlot]

\* C27 (as claimed): the start timestamp is recorded after the command has
\* been transmitted, so once the command is out (hist.sentAt is the tick at
\* which the transmission ended) the timestamp is not older than that tick:
\* no part of the timeout window was spent before the transmission ended.
C27_WindowStartsAfterTransmit ==
    hist.sentAt # -1 => (hist.sentAt - start_time) % TickModulus = 0

\* C28: an iteration that starts with elapsed time >= delay returns
\* WIFI_TIMEOUT without scanning, even when the terminal token is already in
\* the buffer; so a call with delay 0 returns WIFI_TIMEOUT and never scans.
C28_TimeoutCheckedFirst ==
    /\ [][(tx_pc = "poll_time" /\ tx_pc' # "poll_time" /\ Elapsed >= tx.delay) =>
              (/\ tx_pc' = "returned"
               /\ response' = WIFI_TIMEOUT
               /\ UNCHANGED <<response_buffer, slots>>)]_vars
    /\ []((tx.delay = 0 /\ tx_pc = "returned") =>
              (response = WIFI_TIMEOUT /\ ~hist.scanned))

C28_Witness ==
    /\ tx_pc = "returned"
    /\ response = WIFI_TIMEOUT
    /\ tx.delay > 0
    /\ hist.scanned
    /\ Strstr(CStr(uart_receive_buffer), tx.exp_end) # 0

\* C29: the write cursor is always in 0 .. capacity-1, and a push of byte b
\* writes b at the position the cursor had before the push, advances the
\* cursor by one modulo the capacity and leaves every other byte of the
\* buffer as it was.
C29_PushWritesAtCursor ==
    /\ [](uart_receive_index \in BufIndex)
    /\ [][hist.pushed' # hist.pushed =>
              /\ DOMAIN uart_receive_buffer' = BufIndex
              /\ uart_receive_buffer'[uart_receive_index] = Head(wire)
              /\ uart_receive_index' =
                    (uart_receive_index + 1) % SIZE_OF_INCOMING_DATA
              /\ \A i \in BufIndex \ {uart_receive_index} :
                    uart_receive_buffer'[i] = uart_receive_buffer[i]]_vars

C29_Witness ==
    /\ Len(hist.pushed) = SIZE_OF_INCOMING_DATA + 2
    /\ uart_receive_index = 2
    /\ uart_receive_buffer[1] = hist.pushed[SIZE_OF_INCOMING_DATA + 2]
    /\ uart_receive_buffer[2] = hist.pushed[3]

\* C30: the bytes the receive interrupt pushes after the reset of a call has
\* completed and before its first scan are all in the buffer at the first
\* scan: when fewer than `capacity` of them have arrived they are at
\* positions 0, 1, 2, ... in arrival order, the cursor is behind the last,
\* and the rest of the buffer is NUL.
C30_GapBytesRetained ==
    (/\ tx_pc = "poll_scan"
     /\ ~hist.scanned
     /\ Len(hist.pushed) < SIZE_OF_INCOMING_DATA) =>
        /\ uart_receive_index = Len(hist.pushed)
        /\ \A i \in BufIndex :
              uart_receive_buffer[i] =
                 IF i < Len(hist.pushed) THEN hist.pushed[i + 1] ELSE NUL

C30_Witness ==
    /\ tx_pc = "poll_scan"
    /\ ~hist.scanned
    /\ Len(hist.pushed) >= 3
    /\ wire # <<>>
    /\ uart_receive_buffer[2] = hist.pushed[3]

\* C31 (as claimed): whenever send_command is about to scan, the receive
\* buffer holds a zero byte within its capacity, so the linear scan ends
\* inside the buffer however many bytes have been pushed since the reset.
C31_ScanStaysInBuffer ==
    tx_pc = "poll_scan" => HasNul(uart_receive_buffer)

\* C32: between the masking and the unmasking in get_tick the tick counter
\* does not change (tick_increment does not run); the value get_tick returns
\* is the counter's value at the instant of the masking, which is also its
\* value at the unmasking; and when get_tick returns the interrupts are
\* enabled.
C32_TickReadMasked ==
    /\ [][(op.name = "get_tick" /\ op_pc \in {"load", "enable"}) =>
              current_tick' = current_tick]_vars
    /\ []((op.name = "get_tick" /\ op_pc \in {"tick_return", "returned"}) =>
              /\ ~primask
              /\ op.gt.ticks = op.gt.at_mask
              /\ op.gt.ticks = op.gt.at_unmask)
    /\ []((op.name = "get_tick" /\ op_pc = "returned") =>
              op.result_code = op.gt.ticks)

C32_Witness ==
    /\ op.name = "get_tick"
    /\ op_pc = "returned"
    /\ op.gt.calls = 2
    /\ op.result_code = 1
    /\ current_tick = 2

\* C33: with hist.ticked the number of ticks since the call recorded its
\* start, the elapsed time the call computes is that number also after the
\* counter has wrapped to 0, and the timeout check of an iteration ends the
\* call exactly when `delay` ticks or more have passed: a call started just
\* before the wrap neither times out early nor waits on.
C33_TimeoutAcrossWrap ==
    /\ [](tx_pc \in {"clear", "reset_index", "transmit", "poll_time", "poll_scan"} =>
              Elapsed = hist.ticked)
    /\ [][(tx_pc = "poll_time" /\ tx_pc' # "poll_time") =>
              ((hist.ticked >= tx.delay) <=>
                  (tx_pc' = "returned" /\ response' = WIFI_TIMEOUT))]_vars

C33_Witness ==
    /\ tx_pc = "returned"
    /\ response = WIFI_TIMEOUT
    /\ start_time = TickModulus - 1
    /\ current_tick = MaxDelay - 1
    /\ tx.delay = MaxDelay
    /\ hist.ticked = MaxDelay

\* C34 (as claimed): when rtc_init has failed inside WiFi_ntp_init (clock or
\* initialisation-mode timeout, or a rejected time or date), WiFi_ntp_init
\* returns a non-zero code and the handler of READ_TIME reports failure.
C34_RtcFailureFailsSyncTime ==
    (/\ op.name = "WiFi_ntp_init"
     /\ op_pc = "returned"
     /\ op.ntp.rtc_ret = -1) =>
        (op.result_code # WIFI_OK /\ op.handler = -1)

\* C35 (as claimed): a call of send_command that has returned has returned
\* WIFI_OK or WIFI_TIMEOUT, never WIFI_FAIL; and a call the modem answered
\* with an error indication and no terminal token has returned WIFI_TIMEOUT
\* after `delay` ticks or more.
C35_OkOrTimeoutOnly ==
    tx_pc = "returned" =>
        /\ response \in {WIFI_OK, WIFI_TIMEOUT}
        /\ script = Rsp_Error =>
              (response = WIFI_TIMEOUT /\ hist.ticked >= tx.delay)

\* C36 (as claimed): a run that has ended in STOP has had the handler of
\* SEND_DATA return success at least once.
C36_StopMeansReportSent ==
    (fsm_pc = "returned" /\ current_state = STOP) => succeeded[SEND_DATA] >= 1

\* C36 (amended): a run that has ended in STOP has had the handler of
\* POWER_DOWN return success, and either the handler of SEND_DATA returned
\* success earlier in the run or at least one handler failure was counted.
C36_StopMeansSentOrFailed ==
    (fsm_pc = "returned" /\ current_state = STOP) =>
        /\ succeeded[POWER_DOWN] >= 1
        /\ succeeded[SEND_DATA] >= 1 \/ retries >= 1

C36_Witness ==
    /\ fsm_pc = "returned"
    /\ current_state = STOP
    /\ succeeded[SEND_DATA] = 0
    /\ invoked[SEND_DATA] = 1
    /\ retries = 1

\* C37 (as claimed): in one run the handler of SEND_DATA returns success at
\* most once.
C37_ReportSentAtMostOnce ==
    succeeded[SEND_DATA] <= 1

\* C37 (amended): in one run the handler of SEND_DATA returns success at
\* most once more than the number of handler failures counted, so at most
\* MAX_RETRIES + 1 times, and a run without a failure sends the report at
\* most once.
C37_ReportResentOnlyAfterFailure ==
    /\ succeeded[SEND_DATA] <= retries + 1
    /\ succeeded[SEND_DATA] <= MAX_RETRIES + 1

C37_Witness ==
    /\ fsm_pc = "returned"
    /\ current_state = STOP
    /\ succeeded[SEND_DATA] = 2
    /\ invoked[RECEIVE_DATA] = 2
    /\ retries = 1

\* C38 (as claimed): whenever the main line is suspended, Alarm A is enabled
\* and the call of RTC_set_alarm of this cycle did not fail.
C38_SuspendedOnlyWithAlarm ==
    main_pc = "suspended" => (rtc.alrae /\ alarm.ret # -1)

\* C39 (as claimed): reconnecting is a value different from connected, and
\* WiFi_init started on a node whose status is RECONNECTING has transmitted
\* join commands by the time it queries the connection mode.
C39_ReconnectingJoins ==
    (/\ op.name = "WiFi_init"
     /\ op.connection_status = RECONNECTING
     /\ op_pc = "AT+CIPMUX?") =>
        /\ RECONNECTING # CONNECTED
        /\ \E i \in 1 .. Len(sent) : sent[i].cmd \in JoinCommands

\* C40 (as claimed): once RTC_set_alarm has read the hour, the minute and
\* the second, the triple it holds is a value the clock had at one instant
\* since the reads began (alarm.seen), also when the clock advanced between
\* the reads.
C40_TimeReadIsSnapshot ==
    alarm_pc = "arm" =>
        <<alarm.current_hours, alarm.current_minutes, alarm.current_seconds>>
            \in alarm.seen

====
